---- MODULE Spec2Model ----
(***************************************************************************)
(* Ingestion-and-aggregation engine of the OpenClaw dashboard              *)
(* (server.js): change detection over the session-log files, the two log   *)
(* decoders, the merge with the session registry, the upserts into the     *)
(* SQLite store, retention pruning and the rebuild of token_daily.         *)
(*                                                                         *)
(* Time is counted in model units; one UTC day is DayMs units long.        *)
(* Timestamps, mtimes and the clock are integers in these units, 0 stands  *)
(* for a missing or unparsable timestamp.  Null stands for JS null.        *)
(***************************************************************************)
EXTENDS Integers, Sequences, FiniteSets, TLC

VARIABLES
  now,             \* the wall clock, what Date.now() returns
  files,           \* the session-log files on disk: path -> stat and content
  registry,        \* sessions.json of the agents: <<agentId, key>> -> entry
  session_rollup,  \* table session_rollup: <<source, session_id>> -> row
  session_fact,    \* table session_fact:   <<source, session_id>> -> row
  token_daily,     \* table token_daily:    <<day, source, model>> -> row
  ingest_file,     \* table ingest_file:    <<source, file_path>> -> row
  decoded,         \* the files the last pass handed to a decoder
  changes,         \* file writes, registry changes and crashes so far
  runs,            \* complete passes since the inputs last changed, counted up to 2
  lastPassAt,      \* the clock reading of the last complete pass, 0 before the first
  crashPre,        \* the store an interrupted pass started from, until the next pass
  recovered,       \* the last complete pass followed an interrupted one over the same inputs
  call,            \* argument and result of a function applied on its own
  dashboardCache,  \* the dashboard getDashboardCached built last, if any
  dashboardCacheAt, \* the clock reading of the call that built it, 0 before the first
  response,        \* the answer of the http handler to the last request
  triggeredAt,     \* the clock reading at which getDashboardCached last started a pass
  threw,           \* writes done before the store threw in the last pass, -1 if it did not
  state,           \* the frontend's state object: data and staticMode
  refreshInFlight, \* the frontend's flag of a refresh that has not finished
  fetches,         \* the requests of the frontend's last refresh, with their outcomes
  repo,            \* the checkout the sync script works in: HEAD, index, upstream
  lastSync,        \* what the last run of the sync script did
  lockDir,         \* /tmp/openclaw-dashboard-sync.lock: whether it exists, and the run that made it
  syncPc           \* where each run of the sync script stands

vars == <<now, files, registry, session_rollup, session_fact, token_daily,
          ingest_file, decoded, changes, runs, lastPassAt, crashPre, recovered, call,
          dashboardCache, dashboardCacheAt, response, triggeredAt, threw,
          state, refreshInFlight, fetches, repo, lastSync, lockDir, syncPc>>

env == <<now, files, registry>>
store == <<session_rollup, session_fact, token_daily, ingest_file>>
ghost == <<decoded, changes, runs, lastPassAt, crashPre, recovered>>
server == <<dashboardCache, dashboardCacheAt, response, triggeredAt, threw>>
frontend == <<state, refreshInFlight, fetches>>
checkout == <<repo, lastSync, lockDir, syncPc>>

----------------------------------------------------------------------------
(* Bounds of the model *)

MaxNow == 4          \* the clock stops advancing here
MaxChanges == 2      \* file writes, registry changes and crashes per behaviour
DayMs == 2           \* model time units per UTC day
\* SESSION_RETENTION_DAYS is read from the environment (default 90); the
\* model runs the server with a short window so that the clock crosses it.
SESSION_RETENTION_DAYS == 1
SESSION_RETENTION_MS == SESSION_RETENTION_DAYS * DayMs

Null == "<null>"
EmptyMap == [k \in {} |-> Null]

Max(a, b) == IF a >= b THEN a ELSE b

\* f with key k set to v (INSERT ... ON CONFLICT DO UPDATE on a keyed table)
Put(f, k, v) == [x \in (DOMAIN f) \cup {k} |-> IF x = k THEN v ELSE f[x]]
\* f without the keys in ks (DELETE)
Drop(f, ks) == [x \in (DOMAIN f) \ ks |-> f[x]]

RECURSIVE SumOver(_, _)
SumOver(S, f) ==
  IF S = {} THEN 0
  ELSE LET x == CHOOSE y \in S : TRUE IN f[x] + SumOver(S \ {x}, f)

----------------------------------------------------------------------------
(* Scalar helpers *)

\* a value Number() maps to NaN or to an infinity (a non-numeric string, an object)
NotFinite == -1000000

\* Number(value || 0), non-finite -> 0.  Counters are integers in the model.
toNumber(value) == IF value = NotFinite THEN 0 ELSE value

\* a test that finds token activity in every record
hasTokenActivity_always(record) == TRUE

hasTokenActivity(record) ==
  LET total == toNumber(record.totalTokens)
      input == toNumber(record.inputTokens)
      output == toNumber(record.outputTokens)
  IN total > 0 \/ input > 0 \/ output > 0

\* a conversion that never accepts the value
toTimestamp_fallbackOnly(value, fallback) == fallback

toTimestamp(value, fallback) ==
  IF value <= 0 THEN fallback ELSE value

\* String.prototype.trim on the model names the model uses
Trim(s) ==
  CASE s = " m1 " -> "m1"
    [] s = " " -> ""
    [] OTHER -> s

normalizeModelName(model) ==
  LET value == IF model = Null THEN "" ELSE Trim(model)
  IN IF value = "" THEN "Unknown" ELSE value

isUnknownZeroNoiseRecord(record) ==
  LET model == normalizeModelName(record.model)
  IN model = "Unknown" /\ ~hasTokenActivity(record)

\* normalizeQueryText on the texts of the model: metadata-only text and the
\* empty text give null, a bracketed timestamp tag is removed, clean text
\* is returned as it is.
normalizeQueryText(text) ==
  CASE text \in {Null, "", "session_id: 1"} -> Null
    [] text = "[Wed 2026-02-18 13:39 GMT+8] q1" -> "q1"
    [] OTHER -> text

\* a test that takes no text for an auto-injected preamble
shouldSkipAutoInjectedQuery_never(text) == FALSE

shouldSkipAutoInjectedQuery(text) ==
  text \in {"AGENTS.md instructions", "<permissions instructions>"}

----------------------------------------------------------------------------
(* Log lines.  A line is a JSON record read with JSON.parse; ok = FALSE   *)
(* is a line JSON.parse throws on.  Fields a record kind does not carry    *)
(* hold their empty value.                                                 *)

L0 == [ok |-> TRUE, type |-> "", id |-> Null, model |-> Null, role |-> "",
       text |-> "", input |-> 0, cacheRead |-> 0, cacheWrite |-> 0,
       output |-> 0, total |-> 0, stopReason |-> Null, ts |-> 0, mts |-> 0]

BadLine == [L0 EXCEPT !.ok = FALSE]
SessionLine(id, ts) == [L0 EXCEPT !.type = "session", !.id = id, !.ts = ts]
ModelChangeLine(m) == [L0 EXCEPT !.type = "model_change", !.model = m]
UserLine(text) == [L0 EXCEPT !.type = "message", !.role = "user", !.text = text]
AssistantLine(m, i, cr, o, t, mts) ==
  [L0 EXCEPT !.type = "message", !.role = "assistant", !.model = m,
             !.input = i, !.cacheRead = cr, !.output = o, !.total = t,
             !.stopReason = "stop", !.mts = mts]
SessionMetaLine(id, mts) == [L0 EXCEPT !.type = "session_meta", !.id = id, !.mts = mts]
TurnContextLine(m) == [L0 EXCEPT !.type = "turn_context", !.model = m]
ResponseItemLine(text) ==
  [L0 EXCEPT !.type = "response_item", !.role = "user", !.text = text]
TokenCountLine(i, o, t) ==
  [L0 EXCEPT !.type = "token_count", !.input = i, !.output = o, !.total = t]

\* the value a decoder returns when it returns null
NoRecord == [isNull |-> TRUE]

----------------------------------------------------------------------------
(* The log files of the model *)

OpenClawPaths == {"a1/S1.jsonl", "a1/S1.jsonl.deleted.1", "a2/notes.jsonl"}
CodexPaths == {"codex/c1.jsonl"}
Paths == OpenClawPaths \cup CodexPaths
AgentIds == <<"a1", "a2">>

\* the agent in whose sessions directory the file lies
AgentOf(path) == IF path = "a2/notes.jsonl" THEN "a2" ELSE "a1"

\* a base name that keeps the extension
BaseName_withExtension(path) == path

\* path.basename(filePath, ".jsonl")
BaseName(path) == IF path = "codex/c1.jsonl" THEN "c1" ELSE path

NoFile == [exists |-> FALSE, mtime |-> 0, size |-> 0, content |-> <<>>]

----------------------------------------------------------------------------
(* Format decoders *)

RECURSIVE openClawLines(_, _, _)
openClawLines(lines, i, acc) ==
  IF i > Len(lines) THEN acc
  ELSE
    LET row == lines[i]
        u1 == IF row.ts # 0 THEN Max(acc.updatedAt, toTimestamp(row.ts, acc.updatedAt))
              ELSE acc.updatedAt
        a1 == [acc EXCEPT !.updatedAt = u1]
    IN
    IF ~row.ok THEN openClawLines(lines, i + 1, acc)
    ELSE IF row.type = "session" THEN
      openClawLines(lines, i + 1,
        [a1 EXCEPT !.sessionId = IF row.id # Null THEN row.id ELSE @])
    ELSE IF row.type = "model_change" /\ row.model \notin {Null, ""} THEN
      openClawLines(lines, i + 1, [a1 EXCEPT !.model = normalizeModelName(row.model)])
    ELSE IF row.type # "message" THEN openClawLines(lines, i + 1, a1)
    ELSE
      LET u2 == IF row.mts # 0 THEN Max(u1, toTimestamp(row.mts, u1)) ELSE u1
          a2 == [a1 EXCEPT !.updatedAt = u2]
      IN
      IF row.role = "user" THEN
        LET query == normalizeQueryText(row.text)
        IN openClawLines(lines, i + 1,
             [a2 EXCEPT !.inputQuery = IF query # Null THEN query ELSE @])
      ELSE IF row.role # "assistant" THEN openClawLines(lines, i + 1, a2)
      ELSE
        LET input == toNumber(row.input) + toNumber(row.cacheRead) + toNumber(row.cacheWrite)
            output == toNumber(row.output)
            total == IF toNumber(row.total) # 0 THEN toNumber(row.total) ELSE input + output
        IN openClawLines(lines, i + 1,
             [a2 EXCEPT
                !.model = IF row.model \notin {Null, ""} THEN normalizeModelName(row.model) ELSE @,
                !.inputTokens = @ + input,
                !.outputTokens = @ + output,
                !.totalTokens = @ + total,
                !.label = IF @ = Null /\ row.stopReason # Null THEN row.stopReason ELSE @])

parseOpenClawSessionFile(filePath, agentId, stat, nowv) ==
  LET \* the match of the base name against <36 hex or dash>.jsonl[.deleted.x]: the session id
      \* a file name carries, null when the name is not a session id
      SessionOfName(path) ==
        IF path \in {"a1/S1.jsonl", "a1/S1.jsonl.deleted.1"} THEN "S1" ELSE Null
  IN
  IF Len(stat.content) = 0 THEN NoRecord
  ELSE
    LET start == [source |-> "openclaw", sessionId |-> SessionOfName(filePath),
                  agentId |-> agentId, label |-> Null, model |-> "Unknown",
                  updatedAt |-> IF stat.mtime # 0 THEN stat.mtime ELSE nowv,
                  inputTokens |-> 0, outputTokens |-> 0, totalTokens |-> 0,
                  inputQuery |-> Null, sourcePath |-> filePath]
        acc == openClawLines(stat.content, 1, start)
    IN IF acc.sessionId = Null THEN NoRecord
       ELSE [acc EXCEPT !.model = normalizeModelName(acc.model)]

RECURSIVE codexLines(_, _, _)
codexLines(lines, i, acc) ==
  IF i > Len(lines) THEN acc
  ELSE
    LET row == lines[i]
        u1 == IF row.ts # 0 THEN Max(acc.updatedAt, toTimestamp(row.ts, acc.updatedAt))
              ELSE acc.updatedAt
        a1 == [acc EXCEPT !.updatedAt = u1]
    IN
    IF ~row.ok THEN codexLines(lines, i + 1, acc)
    ELSE IF row.type = "session_meta" THEN
      codexLines(lines, i + 1,
        [a1 EXCEPT !.sessionId = IF row.id # Null THEN row.id ELSE @,
                   !.updatedAt = IF row.mts # 0 THEN Max(u1, toTimestamp(row.mts, u1)) ELSE u1])
    ELSE IF row.type = "turn_context" /\ row.model \notin {Null, ""} THEN
      codexLines(lines, i + 1, [a1 EXCEPT !.model = normalizeModelName(row.model)])
    ELSE IF row.type = "response_item" THEN
      LET query == IF row.role = "user" THEN normalizeQueryText(row.text) ELSE Null
      IN codexLines(lines, i + 1,
           [a1 EXCEPT !.inputQuery =
              IF row.role # "user" THEN @
              ELSE IF query # Null /\ ~shouldSkipAutoInjectedQuery(query) THEN query
              ELSE IF query # Null /\ @ = Null THEN query
              ELSE @])
    ELSE IF row.type # "token_count" THEN codexLines(lines, i + 1, a1)
    ELSE
      LET input == toNumber(row.input)
          output == toNumber(row.output)
      IN codexLines(lines, i + 1,
           [a1 EXCEPT !.inputTokens = input,
                      !.outputTokens = output,
                      !.totalTokens = IF toNumber(row.total) # 0 THEN toNumber(row.total)
                                      ELSE input + output])

parseCodexSessionFile(filePath, stat, nowv) ==
  IF Len(stat.content) = 0 THEN NoRecord
  ELSE
    LET start == [source |-> "codex", sessionId |-> Null, agentId |-> "codex",
                  label |-> "Codex local session", model |-> "Codex Local",
                  updatedAt |-> IF stat.mtime # 0 THEN stat.mtime ELSE nowv,
                  inputTokens |-> 0, outputTokens |-> 0, totalTokens |-> 0,
                  inputQuery |-> Null, sourcePath |-> filePath]
        acc == codexLines(stat.content, 1, start)
    IN [acc EXCEPT !.sessionId = IF @ = Null THEN BaseName(filePath) ELSE @,
                   !.model = normalizeModelName(acc.model)]

----------------------------------------------------------------------------
(* The session registry (sessions.json of each agent) *)

RegKeys == <<"k1", "k2">>      \* the keys of a sessions.json, in file order

\* stable insertion of x into the sequence s sorted by descending updatedAt
RECURSIVE InsertDesc(_, _)
InsertDesc(s, x) ==
  IF s = <<>> THEN <<x>>
  ELSE IF Head(s).updatedAt >= x.updatedAt THEN <<Head(s)>> \o InsertDesc(Tail(s), x)
  ELSE <<x>> \o s

RECURSIVE SortDesc(_)
SortDesc(s) == IF s = <<>> THEN <<>> ELSE InsertDesc(SortDesc(SubSeq(s, 1, Len(s) - 1)), s[Len(s)])

\* the loop over Object.entries(raw): one record per entry, a later entry with
\* the same agentId:sessionId replaces an earlier one unless it is older
RECURSIVE registryRecords(_, _, _, _)
registryRecords(reg, agentId, i, acc) ==
  IF i > Len(RegKeys) THEN acc
  ELSE IF <<agentId, RegKeys[i]>> \notin DOMAIN reg THEN registryRecords(reg, agentId, i + 1, acc)
  ELSE
    LET value == reg[<<agentId, RegKeys[i]>>]
        item == [key |-> RegKeys[i], agentId |-> agentId,
                 sessionId |-> value.sessionId,
                 label |-> IF value.label = "" THEN Null ELSE value.label,
                 model |-> IF value.model \notin {Null, ""} THEN value.model
                           ELSE IF value.modelProvider \notin {Null, ""} THEN value.modelProvider
                           ELSE "Unknown",
                 updatedAt |-> value.updatedAt,
                 inputTokens |-> value.inputTokens,
                 outputTokens |-> value.outputTokens,
                 totalTokens |-> value.totalTokens,
                 sourcePath |-> "sessions.json"]
        dk == IF item.sessionId # Null THEN item.sessionId ELSE item.key
        same == {j \in 1..Len(acc) :
                   (IF acc[j].sessionId # Null THEN acc[j].sessionId ELSE acc[j].key) = dk}
        next == IF same = {} THEN Append(acc, item)
                ELSE LET j == CHOOSE k \in same : TRUE
                     IN IF item.updatedAt >= acc[j].updatedAt
                        THEN [acc EXCEPT ![j] = item] ELSE acc
    IN registryRecords(reg, agentId, i + 1, next)

readSessionRegistry(reg, agentId) == SortDesc(registryRecords(reg, agentId, 1, <<>>))

\* buildDashboard: the registry records of all configured agents
RECURSIVE allSessionRecords(_, _)
allSessionRecords(reg, i) ==
  IF i > Len(AgentIds) THEN <<>>
  ELSE readSessionRegistry(reg, AgentIds[i]) \o allSessionRecords(reg, i + 1)

\* ingestDashboardData: registryBySession, keyed by <<agentId, sessionId>>
RECURSIVE registryBySession(_, _, _)
registryBySession(records, i, map) ==
  IF i > Len(records) THEN map
  ELSE
    LET record == records[i]
        key == <<record.agentId, record.sessionId>>
    IN IF record.sessionId = Null THEN registryBySession(records, i + 1, map)
       ELSE IF key \notin DOMAIN map
               \/ toTimestamp(record.updatedAt, 0) >= toTimestamp(map[key].updatedAt, 0)
         THEN registryBySession(records, i + 1, Put(map, key, record))
       ELSE registryBySession(records, i + 1, map)

----------------------------------------------------------------------------
(* Merger *)

\* a merge that takes the registry's timestamp
mergeOpenClawParsedWithRegistry_registryStamp(parsed, registryRecord) ==
  IF registryRecord = NoRecord THEN parsed
  ELSE [parsed EXCEPT !.updatedAt = toTimestamp(registryRecord.updatedAt, 0)]

\* a merge in which a registry counter of zero also replaces the parsed one
mergeOpenClawParsedWithRegistry_zeroWins(parsed, registryRecord) ==
  IF registryRecord = NoRecord THEN parsed
  ELSE [parsed EXCEPT
          !.inputTokens = IF toNumber(registryRecord.inputTokens) >= 0
                          THEN toNumber(registryRecord.inputTokens) ELSE @,
          !.outputTokens = IF toNumber(registryRecord.outputTokens) >= 0
                           THEN toNumber(registryRecord.outputTokens) ELSE @,
          !.totalTokens = IF toNumber(registryRecord.totalTokens) >= 0
                          THEN toNumber(registryRecord.totalTokens) ELSE @]

mergeOpenClawParsedWithRegistry(parsed, registryRecord) ==
  IF registryRecord = NoRecord THEN parsed
  ELSE
    LET modelFromRegistry == normalizeModelName(registryRecord.model)
        parsedModel == normalizeModelName(parsed.model)
        registryInput == toNumber(registryRecord.inputTokens)
        registryOutput == toNumber(registryRecord.outputTokens)
        registryTotal == toNumber(registryRecord.totalTokens)
    IN [parsed EXCEPT
          !.label = IF registryRecord.label \notin {Null, ""} THEN registryRecord.label
                    ELSE IF parsed.label \notin {Null, ""} THEN parsed.label
                    ELSE Null,
          !.model = IF modelFromRegistry # "Unknown" THEN modelFromRegistry ELSE parsedModel,
          !.updatedAt = Max(toTimestamp(registryRecord.updatedAt, 0),
                            toTimestamp(parsed.updatedAt, 0)),
          !.inputTokens = IF registryInput > 0 THEN registryInput ELSE parsed.inputTokens,
          !.outputTokens = IF registryOutput > 0 THEN registryOutput ELSE parsed.outputTokens,
          !.totalTokens = IF registryTotal > 0 THEN registryTotal ELSE parsed.totalTokens,
          !.sourcePath = IF parsed.sourcePath \notin {Null, ""} THEN parsed.sourcePath
                         ELSE IF registryRecord.sourcePath \notin {Null, ""}
                           THEN registryRecord.sourcePath
                         ELSE Null]

----------------------------------------------------------------------------
(* Store.  A store value is the record of the four tables; a write is a    *)
(* record naming the statement and its parameters.                         *)

DB == [rollup |-> session_rollup, fact |-> session_fact,
       daily |-> token_daily, ingest |-> ingest_file]

\* Math.round(stat.mtimeMs); mtimes are whole numbers in the model
MathRound(x) == x

\* a calendar that puts every instant on day 0
DayOf_oneDay(updated_at) == 0

\* strftime('%Y-%m-%d', updated_at / 1000, 'unixepoch'): the UTC day number
DayOf(updated_at) == updated_at \div DayMs

\* a rollup upsert that adds the incoming counters to the stored ones
upsertRollup_adding(rollup, r) ==
  LET key == <<r.source, r.session_id>>
  IN IF key \notin DOMAIN rollup THEN Put(rollup, key, r)
     ELSE Put(rollup, key,
            [r EXCEPT !.input_tokens = @ + rollup[key].input_tokens,
                      !.output_tokens = @ + rollup[key].output_tokens,
                      !.total_tokens = @ + rollup[key].total_tokens])

\* INSERT INTO session_rollup ... ON CONFLICT(source, session_id) DO UPDATE
upsertRollup(rollup, r) == Put(rollup, <<r.source, r.session_id>>, r)

\* a fact upsert that replaces the whole row
upsertFact_replacing(fact, r) ==
  Put(fact, <<r.source, r.session_id>>, r)

\* INSERT INTO session_fact ... ON CONFLICT(source, session_id) DO UPDATE
upsertFact(fact, r) ==
  LET key == <<r.source, r.session_id>>
  IN IF key \notin DOMAIN fact THEN Put(fact, key, r)
     ELSE Put(fact, key,
            [r EXCEPT
               !.label = IF r.label # Null THEN r.label ELSE fact[key].label,
               !.input_query = IF r.input_query # Null /\ r.input_query # ""
                               THEN r.input_query ELSE fact[key].input_query,
               !.source_path = IF r.source_path # Null THEN r.source_path
                               ELSE fact[key].source_path])

\* DELETE ... WHERE total_tokens <= 0 AND input_tokens <= 0 AND output_tokens <= 0
deleteZero(table) ==
  Drop(table, {k \in DOMAIN table :
                 /\ table[k].total_tokens <= 0
                 /\ table[k].input_tokens <= 0
                 /\ table[k].output_tokens <= 0})

\* DELETE ... WHERE updated_at < cutoff
deleteOld(table, cutoff) == Drop(table, {k \in DOMAIN table : table[k].updated_at < cutoff})

DailyKey(r) ==
  LET \* COALESCE(NULLIF(TRIM(model), ''), 'Unknown')
      DailyModel(model) ==
        IF model = Null \/ Trim(model) = "" THEN "Unknown" ELSE Trim(model)
  IN
  <<DayOf(r.updated_at), r.source, DailyModel(r.model)>>

\* a rebuild whose COUNT(*) is not grouped
insertDaily_ungroupedCount(daily, rollup) ==
  LET rows == {k \in DOMAIN rollup : rollup[k].total_tokens > 0}
      keys == {DailyKey(rollup[k]) : k \in rows}
      group(dk) == {k \in rows : DailyKey(rollup[k]) = dk}
  IN [dk \in (DOMAIN daily) \cup keys |->
        IF dk \in keys
        THEN [day |-> dk[1], source |-> dk[2], model |-> dk[3],
              input_tokens |-> SumOver(group(dk), [k \in group(dk) |-> rollup[k].input_tokens]),
              output_tokens |-> SumOver(group(dk), [k \in group(dk) |-> rollup[k].output_tokens]),
              total_tokens |-> SumOver(group(dk), [k \in group(dk) |-> rollup[k].total_tokens]),
              sessions |-> Cardinality(rows)]
        ELSE daily[dk]]

\* INSERT INTO token_daily SELECT ... FROM session_rollup WHERE total_tokens > 0 GROUP BY 1, 2, 3
insertDaily(daily, rollup) ==
  LET rows == {k \in DOMAIN rollup : rollup[k].total_tokens > 0}
      keys == {DailyKey(rollup[k]) : k \in rows}
      group(dk) == {k \in rows : DailyKey(rollup[k]) = dk}
  IN [dk \in (DOMAIN daily) \cup keys |->
        IF dk \in keys
        THEN [day |-> dk[1], source |-> dk[2], model |-> dk[3],
              input_tokens |-> SumOver(group(dk), [k \in group(dk) |-> rollup[k].input_tokens]),
              output_tokens |-> SumOver(group(dk), [k \in group(dk) |-> rollup[k].output_tokens]),
              total_tokens |-> SumOver(group(dk), [k \in group(dk) |-> rollup[k].total_tokens]),
              sessions |-> Cardinality(group(dk))]
        ELSE daily[dk]]

\* the two statements of rebuildTokenDaily
rebuildTokenDaily == <<[op |-> "deleteDaily"], [op |-> "insertDaily"]>>

ApplyOp(db, w) ==
  CASE w.op = "upsertRollup" -> [db EXCEPT !.rollup = upsertRollup(@, w.row)]
    [] w.op = "upsertFact" -> [db EXCEPT !.fact = upsertFact(@, w.row)]
    [] w.op = "upsertIngest" ->
         [db EXCEPT !.ingest = Put(@, <<w.source, w.file_path>>,
            [mtime_ms |-> w.mtime_ms, size_bytes |-> w.size_bytes, ingested_at |-> w.ingested_at])]
    [] w.op = "deleteZeroFact" -> [db EXCEPT !.fact = deleteZero(@)]
    [] w.op = "deleteZeroRollup" -> [db EXCEPT !.rollup = deleteZero(@)]
    [] w.op = "deleteOldFact" -> [db EXCEPT !.fact = deleteOld(@, w.cutoff)]
    [] w.op = "deleteOldRollup" -> [db EXCEPT !.rollup = deleteOld(@, w.cutoff)]
    [] w.op = "deleteDaily" -> [db EXCEPT !.daily = EmptyMap]
    [] w.op = "insertDaily" -> [db EXCEPT !.daily = insertDaily(@, db.rollup)]

\* the store after the first n writes of ws
RECURSIVE ApplyOps(_, _, _)
ApplyOps(db, ws, n) ==
  IF n = 0 THEN db ELSE ApplyOp(ApplyOps(db, ws, n - 1), ws[n])

\* an upsertSession that skips only rows without a session id
upsertSession_unguarded(row, nowv) ==
  IF row.sessionId = Null \/ row.sessionId = "" THEN <<>>
  ELSE
    LET source == IF row.source = "codex" THEN "codex" ELSE "openclaw"
        model == normalizeModelName(row.model)
        updatedAt == toTimestamp(row.updatedAt, nowv)
        r == [source |-> source, session_id |-> row.sessionId, agent_id |-> row.agentId,
              model |-> model, updated_at |-> updatedAt, input_tokens |-> row.inputTokens,
              output_tokens |-> row.outputTokens, total_tokens |-> row.totalTokens]
        f == [source |-> source, session_id |-> row.sessionId, agent_id |-> row.agentId,
              label |-> row.label, model |-> model, updated_at |-> updatedAt,
              input_tokens |-> row.inputTokens, output_tokens |-> row.outputTokens,
              total_tokens |-> row.totalTokens,
              input_query |-> normalizeQueryText(row.inputQuery),
              source_path |-> row.sourcePath]
    IN <<[op |-> "upsertRollup", row |-> r], [op |-> "upsertFact", row |-> f]>>

\* upsertSession: the writes it issues for a row, none when the row is skipped
upsertSession(row, nowv) ==
  IF row.sessionId = Null \/ row.sessionId = "" THEN <<>>
  ELSE IF ~hasTokenActivity(row) THEN <<>>
  ELSE IF isUnknownZeroNoiseRecord(row) THEN <<>>
  ELSE
    LET source == IF row.source = "codex" THEN "codex" ELSE "openclaw"
        agentId == IF row.agentId \notin {Null, ""} THEN row.agentId ELSE Null
        label == IF row.label \notin {Null, ""} THEN row.label ELSE Null
        model == normalizeModelName(row.model)
        updatedAt == toTimestamp(row.updatedAt, nowv)
        inputTokens == toNumber(row.inputTokens)
        outputTokens == toNumber(row.outputTokens)
        totalTokens == IF toNumber(row.totalTokens) # 0 THEN toNumber(row.totalTokens)
                       ELSE inputTokens + outputTokens
        inputQuery == normalizeQueryText(row.inputQuery)
        sourcePath == IF row.sourcePath \notin {Null, ""} THEN row.sourcePath ELSE Null
        r == [source |-> source, session_id |-> row.sessionId, agent_id |-> agentId,
              model |-> model, updated_at |-> updatedAt, input_tokens |-> inputTokens,
              output_tokens |-> outputTokens, total_tokens |-> totalTokens]
        f == [source |-> source, session_id |-> row.sessionId, agent_id |-> agentId,
              label |-> label, model |-> model, updated_at |-> updatedAt,
              input_tokens |-> inputTokens, output_tokens |-> outputTokens,
              total_tokens |-> totalTokens, input_query |-> inputQuery,
              source_path |-> sourcePath]
    IN <<[op |-> "upsertRollup", row |-> r], [op |-> "upsertFact", row |-> f]>>

----------------------------------------------------------------------------
(* One ingestion pass *)

\* the order in which readdir returns the files
Listing == <<"a1/S1.jsonl", "a1/S1.jsonl.deleted.1", "a2/notes.jsonl", "codex/c1.jsonl">>

\* an insertion that sorts by descending mtime
RECURSIVE InsertAsc_descending(_, _, _)
InsertAsc_descending(fs, s, p) ==
  IF s = <<>> THEN <<p>>
  ELSE IF fs[Head(s)].mtime >= fs[p].mtime
    THEN <<Head(s)>> \o InsertAsc_descending(fs, Tail(s), p)
  ELSE <<p>> \o s

\* stable insertion of path p into s sorted by ascending mtime
RECURSIVE InsertAsc(_, _, _)
InsertAsc(fs, s, p) ==
  IF s = <<>> THEN <<p>>
  ELSE IF fs[Head(s)].mtime <= fs[p].mtime THEN <<Head(s)>> \o InsertAsc(fs, Tail(s), p)
  ELSE <<p>> \o s

RECURSIVE SortAsc(_, _)
SortAsc(fs, s) ==
  IF s = <<>> THEN <<>> ELSE InsertAsc(fs, SortAsc(fs, SubSeq(s, 1, Len(s) - 1)), s[Len(s)])

\* listOpenClawSessionFiles(agent.id), stat'ed, kept when a file, sorted by mtime
listOpenClawSessionFiles(fs, agentId) ==
  SortAsc(fs, SelectSeq(Listing,
    LAMBDA p : p \in OpenClawPaths /\ AgentOf(p) = agentId /\ fs[p].exists))

\* listFilesRecursive(CODEX_SESSIONS_DIR, 4), the .jsonl files, sorted by mtime
listCodexFiles(fs) ==
  SortAsc(fs, SelectSeq(Listing, LAMBDA p : p \in CodexPaths /\ fs[p].exists))

\* a change test that looks at the mtime only
shouldIngest_mtimeOnly(ingest, source, filePath, stat) ==
  ~ (/\ <<source, filePath>> \in DOMAIN ingest
     /\ ingest[<<source, filePath>>].mtime_ms = MathRound(stat.mtime))

\* the change test of the file loops: no recorded state, or mtime or size differ
shouldIngest(ingest, source, filePath, stat) ==
  ~ (/\ <<source, filePath>> \in DOMAIN ingest
     /\ ingest[<<source, filePath>>].mtime_ms = MathRound(stat.mtime)
     /\ ingest[<<source, filePath>>].size_bytes = stat.size)

upsertIngestedFileState(source, filePath, stat, nowv) ==
  [op |-> "upsertIngest", source |-> source, file_path |-> filePath,
   mtime_ms |-> MathRound(stat.mtime), size_bytes |-> stat.size, ingested_at |-> nowv]

\* a loop body that records the file's state before it upserts the session
openClawFileWrites_stateFirst(ingest, fs, regMap, agentId, filePath, nowv) ==
  IF ~shouldIngest(ingest, "openclaw", filePath, fs[filePath]) THEN <<>>
  ELSE
    LET parsed == parseOpenClawSessionFile(filePath, agentId, fs[filePath], nowv)
        fromRegistry ==
          IF parsed # NoRecord /\ <<agentId, parsed.sessionId>> \in DOMAIN regMap
          THEN regMap[<<agentId, parsed.sessionId>>] ELSE NoRecord
    IN <<upsertIngestedFileState("openclaw", filePath, fs[filePath], nowv)>>
       \o (IF parsed # NoRecord
           THEN upsertSession(mergeOpenClawParsedWithRegistry(parsed, fromRegistry), nowv)
           ELSE <<>>)

\* body of the loop over the files of one openclaw agent
\* a loop body that records the file's state only when the decoder
\* returned a record
openClawFileWrites_stateOnlyWhenParsed(ingest, fs, regMap, agentId, filePath, nowv) ==
  IF ~shouldIngest(ingest, "openclaw", filePath, fs[filePath]) THEN <<>>
  ELSE
    LET parsed == parseOpenClawSessionFile(filePath, agentId, fs[filePath], nowv)
        fromRegistry ==
          IF parsed # NoRecord /\ <<agentId, parsed.sessionId>> \in DOMAIN regMap
          THEN regMap[<<agentId, parsed.sessionId>>] ELSE NoRecord
    IN IF parsed # NoRecord
       THEN upsertSession(mergeOpenClawParsedWithRegistry(parsed, fromRegistry), nowv)
            \o <<upsertIngestedFileState("openclaw", filePath, fs[filePath], nowv)>>
       ELSE <<>>

openClawFileWrites(ingest, fs, regMap, agentId, filePath, nowv) ==
  IF ~shouldIngest(ingest, "openclaw", filePath, fs[filePath]) THEN <<>>
  ELSE
    LET parsed == parseOpenClawSessionFile(filePath, agentId, fs[filePath], nowv)
        fromRegistry ==
          IF parsed # NoRecord /\ <<agentId, parsed.sessionId>> \in DOMAIN regMap
          THEN regMap[<<agentId, parsed.sessionId>>] ELSE NoRecord
    IN (IF parsed # NoRecord
        THEN upsertSession(mergeOpenClawParsedWithRegistry(parsed, fromRegistry), nowv)
        ELSE <<>>)
       \o <<upsertIngestedFileState("openclaw", filePath, fs[filePath], nowv)>>

RECURSIVE openClawAgentWrites(_, _, _, _, _, _, _)
openClawAgentWrites(ingest, fs, regMap, agentId, list, i, nowv) ==
  IF i > Len(list) THEN <<>>
  ELSE openClawFileWrites(ingest, fs, regMap, agentId, list[i], nowv)
       \o openClawAgentWrites(ingest, fs, regMap, agentId, list, i + 1, nowv)

RECURSIVE openClawWrites(_, _, _, _, _)
openClawWrites(ingest, fs, regMap, a, nowv) ==
  IF a > Len(AgentIds) THEN <<>>
  ELSE openClawAgentWrites(ingest, fs, regMap, AgentIds[a],
                           listOpenClawSessionFiles(fs, AgentIds[a]), 1, nowv)
       \o openClawWrites(ingest, fs, regMap, a + 1, nowv)

\* a pass that upserts no registry record
registryWrites_none(records, i, nowv) == <<>>

\* the loop over allSessionRecords: every registry record is upserted
RECURSIVE registryWrites(_, _, _)
registryWrites(records, i, nowv) ==
  IF i > Len(records) THEN <<>>
  ELSE upsertSession([source |-> "openclaw", sessionId |-> records[i].sessionId,
                      agentId |-> records[i].agentId, label |-> records[i].label,
                      model |-> records[i].model, updatedAt |-> records[i].updatedAt,
                      inputTokens |-> records[i].inputTokens,
                      outputTokens |-> records[i].outputTokens,
                      totalTokens |-> records[i].totalTokens,
                      inputQuery |-> Null, sourcePath |-> records[i].sourcePath], nowv)
       \o registryWrites(records, i + 1, nowv)

RECURSIVE codexWrites(_, _, _, _, _)
codexWrites(ingest, fs, list, i, nowv) ==
  IF i > Len(list) THEN <<>>
  ELSE
    LET filePath == list[i]
        parsed == parseCodexSessionFile(filePath, fs[filePath], nowv)
    IN (IF ~shouldIngest(ingest, "codex", filePath, fs[filePath]) THEN <<>>
        ELSE (IF parsed # NoRecord THEN upsertSession(parsed, nowv) ELSE <<>>)
             \o <<upsertIngestedFileState("codex", filePath, fs[filePath], nowv)>>)
       \o codexWrites(ingest, fs, list, i + 1, nowv)

\* retention that prunes session_fact only
pruneWrites_factOnly(nowv) ==
  LET cutoff == nowv - SESSION_RETENTION_MS
  IN <<[op |-> "deleteZeroFact"], [op |-> "deleteZeroRollup"],
       [op |-> "deleteOldFact", cutoff |-> cutoff]>>

\* the retention statements at the end of the pass
pruneWrites(nowv) ==
  LET cutoff == nowv - SESSION_RETENTION_MS
  IN <<[op |-> "deleteZeroFact"], [op |-> "deleteZeroRollup"],
       [op |-> "deleteOldFact", cutoff |-> cutoff],
       [op |-> "deleteOldRollup", cutoff |-> cutoff]>>

\* a pass that rebuilds token_daily before it prunes
ingestDashboardData_rebuildBeforePrune(db, fs, reg, nowv) ==
  LET records == allSessionRecords(reg, 1)
      regMap == registryBySession(records, 1, EmptyMap)
  IN openClawWrites(db.ingest, fs, regMap, 1, nowv)
     \o registryWrites(records, 1, nowv)
     \o codexWrites(db.ingest, fs, listCodexFiles(fs), 1, nowv)
     \o rebuildTokenDaily
     \o pruneWrites(nowv)

\* ingestDashboardData: the store writes of one pass, in the order the code
\* issues them.  The rows of ingest_file are read from the store the pass
\* starts with: a pass reads the row of a file before its only write to it.
ingestDashboardData(db, fs, reg, nowv) ==
  LET records == allSessionRecords(reg, 1)
      regMap == registryBySession(records, 1, EmptyMap)
  IN openClawWrites(db.ingest, fs, regMap, 1, nowv)
     \o registryWrites(records, 1, nowv)
     \o codexWrites(db.ingest, fs, listCodexFiles(fs), 1, nowv)
     \o pruneWrites(nowv)
     \o rebuildTokenDaily

\* the files a pass hands to a decoder
decodedFiles(db, fs) ==
  {p \in OpenClawPaths : fs[p].exists /\ shouldIngest(db.ingest, "openclaw", p, fs[p])}
  \cup {p \in CodexPaths : fs[p].exists /\ shouldIngest(db.ingest, "codex", p, fs[p])}

----------------------------------------------------------------------------
(* Aggregator *)

\* rows of a table as a sequence in ascending updated_at order
RECURSIVE OrderByUpdatedAt(_, _)
OrderByUpdatedAt(table, keys) ==
  IF keys = {} THEN <<>>
  ELSE LET k == CHOOSE x \in keys : \A y \in keys : table[x].updated_at <= table[y].updated_at
       IN <<table[k]>> \o OrderByUpdatedAt(table, keys \ {k})

readSessionPointsFromDb(db) ==
  LET rows == OrderByUpdatedAt(db.fact,
                {k \in DOMAIN db.fact :
                   \/ db.fact[k].total_tokens > 0
                   \/ db.fact[k].input_tokens > 0
                   \/ db.fact[k].output_tokens > 0})
  IN [i \in 1..Len(rows) |->
        [source |-> rows[i].source, sessionId |-> rows[i].session_id,
         agentId |-> rows[i].agent_id, label |-> rows[i].label,
         model |-> normalizeModelName(rows[i].model),
         updatedAt |-> toNumber(rows[i].updated_at),
         inputTokens |-> toNumber(rows[i].input_tokens),
         outputTokens |-> toNumber(rows[i].output_tokens),
         totalTokens |-> toNumber(rows[i].total_tokens),
         inputQuery |-> normalizeQueryText(rows[i].input_query),
         sourcePath |-> rows[i].source_path]]

RECURSIVE SumSeq(_, _)
SumSeq(s, i) == IF i > Len(s) THEN 0 ELSE s[i] + SumSeq(s, i + 1)

\* the number of days of the trend (14 in the source), in days of the model
TREND_DAYS == 2

\* a sort that leaves the points in the order of the input
sortPoints_inputOrder(points) == points

\* points.sort((a, b) => a.updatedAt - b.updatedAt): ascending updatedAt,
\* entries with equal updatedAt keep their order
sortPoints(points) ==
  LET n == Len(points)
      pos(i) == 1 + Cardinality({j \in 1..n :
                                   \/ points[j].updatedAt < points[i].updatedAt
                                   \/ points[j].updatedAt = points[i].updatedAt /\ j < i})
  IN [k \in 1..n |-> points[CHOOSE i \in 1..n : pos(i) = k]]

aggregateUsage(records, nowv) ==
  LET \* the records aggregateUsage counts, in input order
      countedRecords(rs) ==
        SelectSeq(rs, LAMBDA r : hasTokenActivity(r) /\ ~isUnknownZeroNoiseRecord(r))
  IN
  LET counted == countedRecords(records)
      n == Len(counted)
  IN [totals |-> [totalTokens |-> SumSeq([i \in 1..n |-> toNumber(counted[i].totalTokens)], 1),
                  inputTokens |-> SumSeq([i \in 1..n |-> toNumber(counted[i].inputTokens)], 1),
                  outputTokens |-> SumSeq([i \in 1..n |-> toNumber(counted[i].outputTokens)], 1),
                  sessions |-> n],
      points |-> sortPoints(
                   [i \in 1..n |->
                      [source |-> counted[i].source, sessionId |-> counted[i].sessionId,
                       agentId |-> counted[i].agentId,
                       model |-> normalizeModelName(counted[i].model),
                       updatedAt |-> toTimestamp(counted[i].updatedAt, nowv),
                       totalTokens |-> toNumber(counted[i].totalTokens),
                       inputTokens |-> toNumber(counted[i].inputTokens),
                       outputTokens |-> toNumber(counted[i].outputTokens),
                       inputQuery |-> counted[i].inputQuery]]),
      \* daily[dateKey] += totalTokens; the keys sorted ascending, slice(-14)
      trend |-> LET dayOf(i) == DayOf(toTimestamp(counted[i].updatedAt, nowv))
                    days == {dayOf(i) : i \in 1..n}
                    m == Cardinality(days)
                    sorted == [k \in 1..m |->
                                 CHOOSE d \in days : Cardinality({e \in days : e < d}) = k - 1]
                    kept == IF m > TREND_DAYS THEN SubSeq(sorted, m - TREND_DAYS + 1, m)
                            ELSE sorted
                IN [k \in 1..Len(kept) |->
                      [date |-> kept[k],
                       tokens |-> SumOver({i \in 1..n : dayOf(i) = kept[k]},
                                          [i \in 1..n |-> toNumber(counted[i].totalTokens)])]]]

----------------------------------------------------------------------------
(* The inputs the environment supplies *)

K1 == <<AssistantLine("m1", 10, 0, 5, 0, 0)>>
K3 == <<UserLine("q2")>>
K6 == <<SessionLine("S1", 0), AssistantLine("m1", 2, 0, 2, 0, 0)>>
X1 == <<SessionMetaLine("S1", 0), TurnContextLine(" m1 "),
        TokenCountLine(3, 4, 0), TokenCountLine(5, 6, 12)>>
X2 == <<ResponseItemLine("AGENTS.md instructions"), TokenCountLine(0, 0, 0)>>

\* what may be written to each log file
ContentsOf(path) ==
  LET K5 == <<AssistantLine("m1", 1, 0, 1, 0, 0)>>
  IN
  LET K4 == <<SessionLine("S2", 0), BadLine, ModelChangeLine("m2"), AssistantLine("", 1, 1, 0, 7, 0)>>
  IN
  LET K2 == <<UserLine("[Wed 2026-02-18 13:39 GMT+8] q1"),
              AssistantLine("m1", 10, 0, 5, 0, 0),
              AssistantLine("m2", 0, 0, 5, 0, 3)>>
  IN
  CASE path = "a1/S1.jsonl" -> {K1, K3}
    [] path = "a1/S1.jsonl.deleted.1" -> {K2}
    [] path = "a2/notes.jsonl" -> {K4, K5, K6}
    [] path = "codex/c1.jsonl" -> {X1, X2}

\* stat.size of a file with these lines
SizeOf(content) == Len(content)

RegEntry(sessionId, label, model, updatedAt, i, o, t) ==
  [sessionId |-> sessionId, label |-> label, model |-> model, modelProvider |-> Null,
   updatedAt |-> updatedAt, inputTokens |-> i, outputTokens |-> o, totalTokens |-> t]

\* what may be written to each entry of sessions.json of agent a1, at time t
EntriesOf(key, t) ==
  CASE key = "k1" -> {RegEntry("S1", "L1", "m1", t, 0, 0, 7),
                      RegEntry("S1", Null, Null, t, 0, 0, 0),
                      RegEntry("S1", Null, " m1 ", 0, 3, 4, 0)}
    [] key = "k2" -> {RegEntry(Null, Null, "m2", t, 1, 1, 2),
                      RegEntry("S1", "", "m2", t, 0, 0, 9)}

NoCrash == [none |-> TRUE]
NoDashboard == [empty |-> TRUE]

\* the http server before its first request
ServerInit ==
  LET NoResponse == [status |-> 0]
  IN
  /\ dashboardCache = NoDashboard
  /\ dashboardCacheAt = 0
  /\ response = NoResponse
  /\ triggeredAt = 0
  /\ threw = -1

NoData == [isNull |-> TRUE]     \* state.data before the first load: null

\* the frontend before init() calls refreshDashboard
FrontendInit ==
  /\ state = [data |-> NoData, staticMode |-> FALSE]
  /\ refreshInFlight = FALSE
  /\ fetches = <<>>

\* a checkout in step with its upstream and nothing staged, before the first
\* run of the sync script.  head and index are the content of
\* public/data/dashboard.static.json in HEAD and in the index; otherStaged
\* says that the index differs from HEAD in another path; ahead counts the
\* commits of @{u}..HEAD.
\* the runs of the sync script that may be started
SyncRuns == {"r1", "r2"}

CheckoutInit ==
  /\ repo = [head |-> 0, index |-> 0, otherStaged |-> FALSE, ahead |-> 0]
  /\ lastSync = [ran |-> FALSE]
  /\ lockDir = [exists |-> FALSE]
  /\ syncPc = [r \in SyncRuns |-> "idle"]

----------------------------------------------------------------------------------------------------------------------------------------
(* The state machine *)

Init ==
  LET NoCall == [fn |-> "none"]
  IN
  /\ now = 1
  /\ files = [p \in Paths |-> NoFile]
  /\ registry = EmptyMap
  /\ session_rollup = EmptyMap
  /\ session_fact = EmptyMap
  /\ token_daily = EmptyMap
  /\ ingest_file = EmptyMap
  /\ decoded = {}
  /\ changes = 0
  /\ runs = 0
  /\ lastPassAt = 0
  /\ crashPre = NoCrash
  /\ recovered = FALSE
  /\ ServerInit
  /\ FrontendInit
  /\ CheckoutInit
  /\ call = NoCall

\* time passes
Tick ==
  /\ now < MaxNow
  /\ now' = now + 1
  /\ UNCHANGED <<files, registry, store, ghost, call>>
  /\ UNCHANGED <<server, frontend, checkout>>

\* an agent runtime writes a session log
WriteFile(path, content) ==
  /\ changes < MaxChanges
  /\ files' = [files EXCEPT ![path] = [exists |-> TRUE, mtime |-> now,
                                       size |-> SizeOf(content), content |-> content]]
  /\ files' # files
  /\ changes' = changes + 1
  /\ runs' = 0
  /\ crashPre' = NoCrash
  /\ recovered' = FALSE
  /\ UNCHANGED <<now, registry, store, decoded, lastPassAt, call>>
  /\ UNCHANGED <<server, frontend, checkout>>

\* the openclaw runtime updates an entry of sessions.json
WriteRegistry(key, entry) ==
  /\ changes < MaxChanges
  /\ registry' = Put(registry, <<"a1", key>>, entry)
  /\ registry' # registry
  /\ changes' = changes + 1
  /\ runs' = 0
  /\ crashPre' = NoCrash
  /\ recovered' = FALSE
  /\ UNCHANGED <<now, files, store, decoded, lastPassAt, call>>
  /\ UNCHANGED <<server, frontend, checkout>>

\* buildDashboard runs one complete ingestion pass
IngestPass ==
  /\ \E ws \in {ingestDashboardData(DB, files, registry, now)} :
     \E db \in {ApplyOps(DB, ws, Len(ws))} :
        /\ session_rollup' = db.rollup
        /\ session_fact' = db.fact
        /\ token_daily' = db.daily
        /\ ingest_file' = db.ingest
  /\ decoded' = decodedFiles(DB, files)
  /\ runs' = IF runs < 2 THEN runs + 1 ELSE 2
  /\ lastPassAt' = now
  /\ crashPre' = NoCrash
  /\ recovered' = (crashPre # NoCrash)
  /\ UNCHANGED <<now, files, registry, changes, call>>
  /\ UNCHANGED <<server, frontend, checkout>>

\* a pass that stops after its first n store writes (the process dies)
InterruptedPassAt(n, cost) ==
  /\ crashPre = NoCrash
  /\ changes + cost <= MaxChanges
  /\ \E ws \in {ingestDashboardData(DB, files, registry, now)} :
       /\ n < Len(ws)
       /\ \E db \in {ApplyOps(DB, ws, n)} :
            /\ session_rollup' = db.rollup
            /\ session_fact' = db.fact
            /\ token_daily' = db.daily
            /\ ingest_file' = db.ingest
  /\ crashPre' = DB
  /\ recovered' = FALSE
  /\ runs' = 0
  /\ changes' = changes + cost
  /\ UNCHANGED <<now, files, registry, decoded, lastPassAt, call>>
  /\ UNCHANGED <<server, frontend, checkout>>

\* an interruption counts as one of the MaxChanges changes of a behaviour
InterruptedPass(n) == InterruptedPassAt(n, 1)

Environment ==
  \/ Tick
  \/ \E p \in Paths : \E c \in ContentsOf(p) : WriteFile(p, c)
  \/ \E k \in {"k1", "k2"} : \E e \in EntriesOf(k, now) : WriteRegistry(k, e)

Next ==
  \/ Environment
  \/ IngestPass

Spec == Init /\ [][Next]_vars

\* the passes may be interrupted
MaxWritesOfPass == 20
SpecCrash ==
  Init /\ [][\/ Environment
             \/ IngestPass
             \/ \E n \in 0..MaxWritesOfPass : InterruptedPass(n)]_vars

\* one log file that is rewritten between passes, any of which may be
\* interrupted; here the interruptions are not counted as changes
SpecCrashOneFile ==
  Init /\ [][\/ Tick
             \/ \E c \in ContentsOf("a1/S1.jsonl") : WriteFile("a1/S1.jsonl", c)
             \/ IngestPass
             \/ \E n \in 0..MaxWritesOfPass : InterruptedPassAt(n, 0)]_vars

----------------------------------------------------------------------------
(* mergeOpenClawParsedWithRegistry applied on its own *)

ParsedTokens == {0, 500}
RegistryTokens == {NotFinite, 0, 700}

InitMerge ==
  LET MergeCalls ==
        LET \* a record as readSessionRegistry returns it
            RegistryOf(m, i, o, t) ==
              [key |-> "k1", agentId |-> "a1", sessionId |-> "S1", label |-> Null, model |-> m,
               updatedAt |-> 1, inputTokens |-> i, outputTokens |-> o, totalTokens |-> t,
               sourcePath |-> "sessions.json"]
        IN
        LET \* a record as parseOpenClawSessionFile returns it
            ParsedOf(i, o, t) ==
              [source |-> "openclaw", sessionId |-> "S1", agentId |-> "a1", label |-> "stop",
               model |-> "m1", updatedAt |-> 2, inputTokens |-> i, outputTokens |-> o,
               totalTokens |-> t, inputQuery |-> "q1", sourcePath |-> "a1/S1.jsonl"]
        IN
        {[fn |-> "mergeOpenClawParsedWithRegistry",
          parsed |-> [ParsedOf(i, o, t) EXCEPT !.updatedAt = pu],
          registryRecord |-> r, done |-> FALSE, result |-> NoRecord] :
           i \in ParsedTokens, o \in ParsedTokens, t \in ParsedTokens, pu \in {1, 2, 3},
           r \in {NoRecord} \cup {[RegistryOf(m, ri, ro, rt) EXCEPT !.updatedAt = ru] :
                                     m \in {"Unknown", "m2"}, ri \in RegistryTokens,
                                     ro \in RegistryTokens, rt \in RegistryTokens,
                                     ru \in {NotFinite, 0, 1, 3}}}
  IN
  /\ now = 1
  /\ files = [p \in Paths |-> NoFile]
  /\ registry = EmptyMap
  /\ session_rollup = EmptyMap
  /\ session_fact = EmptyMap
  /\ token_daily = EmptyMap
  /\ ingest_file = EmptyMap
  /\ decoded = {}
  /\ changes = 0
  /\ runs = 0
  /\ lastPassAt = 0
  /\ crashPre = NoCrash
  /\ recovered = FALSE
  /\ ServerInit
  /\ FrontendInit
  /\ CheckoutInit
  /\ call \in MergeCalls

Merge ==
  /\ call.fn = "mergeOpenClawParsedWithRegistry"
  /\ ~call.done
  /\ call' = [call EXCEPT
                !.done = TRUE,
                !.result = mergeOpenClawParsedWithRegistry(call.parsed, call.registryRecord)]
  /\ UNCHANGED <<env, store, ghost>>
  /\ UNCHANGED <<server, frontend, checkout>>

SpecMerge == InitMerge /\ [][Merge]_vars

----------------------------------------------------------------------------
(* upsertSession applied on its own to a store that holds the session *)

InitUpsert ==
  LET \* the rows handed to upsertSession
      IncomingRows ==
        {[source |-> "openclaw", sessionId |-> "S1", agentId |-> a, label |-> l, model |-> m,
          updatedAt |-> u, inputTokens |-> i, outputTokens |-> 0, totalTokens |-> t,
          inputQuery |-> q, sourcePath |-> sp] :
           a \in {"", "a1"}, l \in {Null, "", "L1"}, m \in {Null, "m1"}, u \in {0, 3},
           i \in {0, 4}, t \in {0, 5}, q \in {Null, "", "q1", "session_id: 1"},
           sp \in {Null, "", "a1/S1.jsonl"}}
  IN
  LET StoredFacts ==
        {[source |-> "openclaw", session_id |-> "S1", agent_id |-> "a0", label |-> l,
          model |-> "m0", updated_at |-> 1, input_tokens |-> 1, output_tokens |-> 1,
          total_tokens |-> 2, input_query |-> q, source_path |-> sp] :
           l \in {Null, "L0"}, q \in {Null, "q0"}, sp \in {Null, "a1/old.jsonl"}}
  IN
  LET \* the rows an earlier upsert of session S1 left in session_rollup and session_fact
      StoredRollup ==
        [source |-> "openclaw", session_id |-> "S1", agent_id |-> "a0", model |-> "m0",
         updated_at |-> 1, input_tokens |-> 1, output_tokens |-> 1, total_tokens |-> 2]
  IN
  /\ now = 2
  /\ files = [p \in Paths |-> NoFile]
  /\ registry = EmptyMap
  /\ \E stored \in StoredFacts \cup {NoRecord} : \E row \in IncomingRows :
       /\ session_fact = IF stored = NoRecord THEN EmptyMap
                         ELSE Put(EmptyMap, <<"openclaw", "S1">>, stored)
       /\ session_rollup = IF stored = NoRecord THEN EmptyMap
                           ELSE Put(EmptyMap, <<"openclaw", "S1">>, StoredRollup)
       /\ call = [fn |-> "upsertSession", row |-> row, stored |-> stored, done |-> FALSE]
  /\ token_daily = insertDaily(EmptyMap, session_rollup)
  /\ ingest_file = EmptyMap
  /\ decoded = {}
  /\ changes = 0
  /\ runs = 0
  /\ lastPassAt = 0
  /\ crashPre = NoCrash
  /\ recovered = FALSE
  /\ ServerInit
  /\ FrontendInit
  /\ CheckoutInit

UpsertSession ==
  /\ call.fn = "upsertSession"
  /\ ~call.done
  /\ \E ws \in {upsertSession(call.row, now)} :
     \E db \in {ApplyOps(DB, ws, Len(ws))} :
        /\ session_rollup' = db.rollup
        /\ session_fact' = db.fact
        /\ token_daily' = db.daily
        /\ ingest_file' = db.ingest
  /\ call' = [call EXCEPT !.done = TRUE]
  /\ UNCHANGED <<env, ghost>>
  /\ UNCHANGED <<server, frontend, checkout>>

SpecUpsert == InitUpsert /\ [][UpsertSession]_vars

----------------------------------------------------------------------------
(* The http handler of /api/dashboard and getDashboardCached *)

CACHE_TTL_MS == 5000
MsPerUnit == 2500     \* milliseconds per unit of the model clock

\* the cache test of getDashboardCached
CacheFresh ==
  /\ dashboardCache # NoDashboard
  /\ (now - dashboardCacheAt) * MsPerUnit < CACHE_TTL_MS

\* what buildDashboard returns after its ingestion pass: the usage part
buildDashboard(db, nowv) ==
  LET usage == aggregateUsage(readSessionPointsFromDb(db), nowv)
  IN [overview |-> usage.totals, sessionPoints |-> usage.points]

\* a request answered from the cache
ServeCached ==
  /\ CacheFresh
  /\ response' = [status |-> 200, body |-> dashboardCache]
  /\ UNCHANGED <<env, store, ghost, call, dashboardCache, dashboardCacheAt,
                 triggeredAt, threw>>
  /\ UNCHANGED <<frontend, checkout>>

\* a request that builds the dashboard: one complete pass, then the aggregation
ServeBuilt ==
  /\ ~CacheFresh
  /\ threw' = -1
  /\ dashboardCacheAt' = now
  /\ triggeredAt' = now
  /\ lastPassAt' = now
  /\ \E ws \in {ingestDashboardData(DB, files, registry, now)} :
     \E db \in {ApplyOps(DB, ws, Len(ws))} :
     \E dashboard \in {buildDashboard(db, now)} :
        /\ session_rollup' = db.rollup
        /\ session_fact' = db.fact
        /\ token_daily' = db.daily
        /\ ingest_file' = db.ingest
        /\ dashboardCache' = dashboard
        /\ response' = [status |-> 200, body |-> dashboard]
  /\ decoded' = decodedFiles(DB, files)
  /\ runs' = IF runs < 2 THEN runs + 1 ELSE 2
  /\ crashPre' = NoCrash
  /\ recovered' = FALSE
  /\ UNCHANGED <<now, files, registry, changes, call>>
  /\ UNCHANGED <<frontend, checkout>>

\* a handler that answers a store fault with the dashboard it has cached
ServeFault_staleCache(ws, n) ==
  /\ n < Len(ws)
  /\ threw' = n
  /\ response' = [status |-> 200, body |-> dashboardCache]
  /\ triggeredAt' = now
  /\ changes' = changes + 1
  /\ runs' = 0
  /\ UNCHANGED <<now, files, registry, decoded, lastPassAt, crashPre, recovered, call,
                 dashboardCache, dashboardCacheAt>>
  /\ UNCHANGED <<frontend, checkout>>
  /\ \E db \in {ApplyOps(DB, ws, n)} :
       /\ session_rollup' = db.rollup
       /\ session_fact' = db.fact
       /\ token_daily' = db.daily
       /\ ingest_file' = db.ingest

\* a request, made when the cache is not fresh, during which the store throws
\* after n of the writes ws of its pass (n = 0: the store cannot be opened,
\* or its first write throws): nothing catches the error before the handler,
\* which answers 500
ServeFault(ws, n) ==
  /\ n < Len(ws)
  /\ threw' = n
  /\ response' = [status |-> 500, body |-> [error |-> "Failed to build dashboard"]]
  /\ triggeredAt' = now
  /\ changes' = changes + 1
  /\ runs' = 0
  /\ UNCHANGED <<now, files, registry, decoded, lastPassAt, crashPre, recovered, call,
                 dashboardCache, dashboardCacheAt>>
  /\ UNCHANGED <<frontend, checkout>>
  /\ \E db \in {ApplyOps(DB, ws, n)} :
       /\ session_rollup' = db.rollup
       /\ session_fact' = db.fact
       /\ token_daily' = db.daily
       /\ ingest_file' = db.ingest

SpecServe ==
  Init /\ [][\/ Environment
             \/ ServeCached
             \/ ServeBuilt
             \/ /\ ~CacheFresh
                /\ changes < MaxChanges
                /\ \E ws \in {ingestDashboardData(DB, files, registry, now)} :
                   \E n \in 0..MaxWritesOfPass : ServeFault(ws, n)]_vars

----------------------------------------------------------------------------
(* Redaction.  A string is the sequence of its characters.  A JSON value    *)
(* is a record tagged with its kind: str (s), num (n), null, arr (a, a      *)
(* sequence of values) or obj (o, a function from keys to values).          *)

MaxTextLen == 5      \* symbols of a text handed to redactInline

REDACTED == <<"[", "R", "E", "D", "A", "C", "T", "E", "D", "]">>

\* String(value)
RECURSIVE JsString(_)
JsString(value) ==
  CASE value.kind = "str" -> value.s
    [] value.kind = "num" -> IF value.n = 0 THEN <<"0">> ELSE <<"7">>
    [] value.kind = "null" -> <<"n", "u", "l", "l">>
    [] value.kind = "obj" ->
         <<"[", "o", "b", "j", "e", "c", "t", " ", "O", "b", "j", "e", "c", "t", "]">>
    [] value.kind = "arr" ->
         IF Len(value.a) = 0 THEN <<>>
         ELSE IF Len(value.a) = 1 THEN JsString(value.a[1])
         ELSE JsString(value.a[1]) \o <<",">>
              \o JsString([kind |-> "arr", a |-> Tail(value.a)])

maskSecret(value) ==
  IF value.kind # "str" THEN REDACTED
  ELSE IF Len(value.s) <= 8 THEN REDACTED
  ELSE SubSeq(value.s, 1, 3) \o <<"*", "*", "*">>
       \o SubSeq(value.s, Len(value.s) - 2, Len(value.s))

RECURSIVE redactObject(_)
redactObject(input) ==
  LET \* SENSITIVE_KEY_RE.test(key) on the keys of the model
      SENSITIVE_KEY_RE(key) == key \in {"apiKey", "token", "client_secret"}
  IN
  LET \* !input: null, the empty string, zero
      falsy == \/ input.kind = "null"
               \/ input.kind = "str" /\ input.s = <<>>
               \/ input.kind = "num" /\ input.n = 0
  IN IF input.kind = "arr"
       THEN [kind |-> "arr", a |-> [i \in 1..Len(input.a) |-> redactObject(input.a[i])]]
     ELSE IF falsy \/ input.kind # "obj" THEN input
     ELSE [kind |-> "obj",
           o |-> [key \in DOMAIN input.o |->
                    IF SENSITIVE_KEY_RE(key)
                      THEN [kind |-> "str",
                            s |-> maskSecret([kind |-> "str", s |-> JsString(input.o[key])])]
                    ELSE redactObject(input.o[key])]]

\* A text handed to redactInline is a sequence of symbols, each standing for
\* its characters: the words client_id, client_secret, a, sk-abcdefghij and
\* [REDACTED], and the single characters space, quote, colon, equals sign,
\* comma and semicolon.
SpaceSymbols == {" "}                                  \* \s

\* the first index from i on whose symbol is not in class, Len(text) + 1 if none
RECURSIVE RunEnd(_, _, _)
RunEnd(text, i, class) ==
  IF i > Len(text) THEN i
  ELSE IF text[i] \in class THEN RunEnd(text, i + 1, class) ELSE i

\* the last index of the match of
\*   \b(key)\b\s*[:=]\s*["']?([^\s,"';]+)["']?
\* that begins at i, 0 when there is none
KeyValueMatchEnd(text, i) ==
  LET keys == {"client_id", "client_secret"}
      \* symbols that begin and end with a word character: no \b next to them
      words == {"a", "client_id", "client_secret", "sk-abcdefghij"}
      quotes == {"'", "\""}
      \* [^\s,"';]
      values == {text[m] : m \in 1..Len(text)} \ {" ", ",", "'", "\"", ";"}
      j == RunEnd(text, i + 1, SpaceSymbols)
      k0 == RunEnd(text, j + 1, SpaceSymbols)
      k == IF k0 <= Len(text) /\ text[k0] \in quotes THEN k0 + 1 ELSE k0
      e == RunEnd(text, k, values) - 1
  IN IF text[i] \notin keys THEN 0
     ELSE IF i > 1 /\ text[i - 1] \in words THEN 0
     ELSE IF j > Len(text) \/ text[j] \notin {":", "="} THEN 0
     ELSE IF k > Len(text) \/ text[k] \notin values THEN 0
     ELSE IF e + 1 <= Len(text) /\ text[e + 1] \in quotes THEN e + 1
     ELSE e

\* output.replace(<key-value pattern>, (_match, key) => `${key}: [REDACTED]`)
RECURSIVE replaceKeyValue(_, _)
replaceKeyValue(text, i) ==
  IF i > Len(text) THEN <<>>
  ELSE LET e == KeyValueMatchEnd(text, i)
       IN IF e = 0 THEN <<text[i]>> \o replaceKeyValue(text, i + 1)
          ELSE <<text[i], ":", " ", "[REDACTED]">> \o replaceKeyValue(text, e + 1)

\* output.replace(/(sk-[A-Za-z0-9_-]{10,})/g, "[REDACTED]"); the symbols
\* made of characters of [A-Za-z0-9_-] extend the match
RECURSIVE replaceSk(_, _)
replaceSk(text, i) ==
  IF i > Len(text) THEN <<>>
  ELSE IF text[i] = "sk-abcdefghij"
    THEN <<"[REDACTED]">>
         \o replaceSk(text, RunEnd(text, i, {"a", "client_id", "client_secret", "sk-abcdefghij"}))
  ELSE <<text[i]>> \o replaceSk(text, i + 1)

\* redactInline.  The other patterns of SENSITIVE_INLINE_RE need a ".", the
\* prefix GOCSPX- or AIza, or twelve digits: they match no text of the model.
redactInline(text) == replaceSk(replaceKeyValue(text, 1), 1)

InitRedact ==
  LET \* the texts redactInline is applied to
      RedactTexts ==
        UNION {[1..n -> {"client_id", ":", " ", "'", "a", "sk-abcdefghij"}] : n \in 0..MaxTextLen}
  IN
  LET \* the values redactObject is applied to: strings of 0, 3 and 9 characters, a
      \* number, null, objects with a sensitive and a plain key, nested once, and
      \* arrays of an object
      RedactValues ==
        LET leaves == {[kind |-> "str", s |-> <<"a", "b", "c">>],
                       [kind |-> "str", s |-> <<"a", "b", "c", "d", "e", "f", "g", "h", "i">>],
                       [kind |-> "str", s |-> <<>>],
                       [kind |-> "num", n |-> 7],
                       [kind |-> "null"]}
            nested == {[kind |-> "obj", o |-> [key \in {"token"} |-> v]] : v \in leaves}
        IN leaves
           \cup {[kind |-> "obj",
                  o |-> [key \in {"apiKey", "name"} |-> IF key = "apiKey" THEN v ELSE w]] :
                   v \in leaves \cup nested, w \in leaves \cup nested}
           \cup {[kind |-> "arr", a |-> <<o>>] : o \in nested}
  IN
  /\ now = 1
  /\ files = [p \in Paths |-> NoFile]
  /\ registry = EmptyMap
  /\ session_rollup = EmptyMap
  /\ session_fact = EmptyMap
  /\ token_daily = EmptyMap
  /\ ingest_file = EmptyMap
  /\ decoded = {}
  /\ changes = 0
  /\ runs = 0
  /\ lastPassAt = 0
  /\ crashPre = NoCrash
  /\ recovered = FALSE
  /\ ServerInit
  /\ FrontendInit
  /\ CheckoutInit
  /\ \/ \E v \in RedactValues : call = [fn |-> "redactObject", input |-> v, outputs |-> <<>>]
     \/ \E t \in RedactTexts : call = [fn |-> "redactInline", input |-> t, outputs |-> <<>>]

\* redactObject applied to the input, then to its own result
RedactObject ==
  /\ call.fn = "redactObject"
  /\ Len(call.outputs) < 2
  /\ call' = [call EXCEPT !.outputs =
                Append(@, redactObject(IF @ = <<>> THEN call.input ELSE @[Len(@)]))]
  /\ UNCHANGED <<env, store, ghost, server, frontend, checkout>>

\* redactInline applied to the input, then to its own result
RedactInline ==
  /\ call.fn = "redactInline"
  /\ Len(call.outputs) < 2
  /\ call' = [call EXCEPT !.outputs =
                Append(@, redactInline(IF @ = <<>> THEN call.input ELSE @[Len(@)]))]
  /\ UNCHANGED <<env, store, ghost, server, frontend, checkout>>

SpecRedact == InitRedact /\ [][RedactObject \/ RedactInline]_vars

----------------------------------------------------------------------------
(* normalizeQueryText on a text given as its symbols.  A symbol is a word,  *)
(* a bracketed tag or a single space, and stands for its characters: the    *)
(* length of a text is the sum of the lengths of its symbols.               *)

TagGmt == "[Wed 2026-02-18 13:39 GMT+8]"
\* the text U+6CA1 U+9519 U+FF0C U+7EE7 U+7EED U+5904 U+7406, which begins with
\* the two characters indexOf looks for; one letter for each character
Agree == "MC,JXCL"
\* the label U+5B9A U+65F6 U+4EFB U+52A1, one letter for each character
TaskLabel == "DSRW"
\* the character U+2026 normalizeQueryText ends a shortened text with
Ellipsis == "~"
\* The other symbols: the tag "[Wed 2026-02-18 13:39]" without a zone, the
\* tag "[cron]", the time "13:39", the words gmt, time and hello, "-" and
\* the space.

\* .replace(/\s+/g, " ")
RECURSIVE collapseSpaces(_)
collapseSpaces(text) ==
  IF text = <<>> THEN <<>>
  ELSE IF text[1] = " "
    THEN <<" ">> \o collapseSpaces(SubSeq(text, RunEnd(text, 1, SpaceSymbols), Len(text)))
  ELSE <<text[1]>> \o collapseSpaces(Tail(text))

\* .trimEnd()
RECURSIVE trimEnd(_)
trimEnd(text) ==
  IF text # <<>> /\ text[Len(text)] = " " THEN trimEnd(SubSeq(text, 1, Len(text) - 1))
  ELSE text

\* .trim()
trim(text) == trimEnd(SubSeq(text, RunEnd(text, 1, SpaceSymbols), Len(text)))

\* the first index after the match of leadingNoiseRe, 1 when there is none.
\* Of its alternatives the model's symbols give spaces and "time" followed
\* by "-".
RECURSIVE LeadingNoiseEnd(_, _)
LeadingNoiseEnd(text, i) ==
  IF i > Len(text) THEN i
  ELSE IF text[i] = " " THEN LeadingNoiseEnd(text, i + 1)
  ELSE IF text[i] = "time"
    THEN LET j == RunEnd(text, i + 1, SpaceSymbols)
         IN IF j <= Len(text) /\ text[j] = "-"
              THEN LeadingNoiseEnd(text, RunEnd(text, j + 1, SpaceSymbols))
            ELSE i
  ELSE i

\* while (leadingNoiseRe.test(compact)) compact = compact.replace(leadingNoiseRe, "").trim()
RECURSIVE stripLeadingNoise(_)
stripLeadingNoise(text) ==
  IF LeadingNoiseEnd(text, 1) = 1 THEN text
  ELSE stripLeadingNoise(trim(SubSeq(text, LeadingNoiseEnd(text, 1), Len(text))))

\* the index of the first symbol of the text in class, 0 when there is none
RECURSIVE IndexIn(_, _, _)
IndexIn(text, i, class) ==
  IF i > Len(text) THEN 0
  ELSE IF text[i] \in class THEN i ELSE IndexIn(text, i + 1, class)

\* const agreeIdx = compact.indexOf(<first two characters of Agree>); if (agreeIdx > 0) ...
\* The prefix test conversation|metadata|openclaw-tui|gmt|session, case
\* ignored, matches in the tag with GMT and in the word gmt; its last
\* alternative, an unclosed "[", matches no symbol of the model.
sliceAtAgree(text) ==
  LET agreeIdx == IndexIn(text, 1, {Agree})
  IN IF agreeIdx > 1 /\ \E i \in 1..(agreeIdx - 1) : text[i] \in {TagGmt, "gmt"}
       THEN trim(SubSeq(text, agreeIdx, Len(text)))
     ELSE text

\* const firstHan = compact.search(/[\p{Script=Han}]/u); if (firstHan > 0 && firstHan < 260) ...
\* Agree and TaskLabel begin with a character of script Han.  The prefix test
\* adds [A-Za-z]{3}\s+\d{4}-\d{2}-\d{2}, which matches in both dated tags.
\* Every text of the model is shorter than 260 characters.
sliceAtFirstHan(text) ==
  LET firstHan == IndexIn(text, 1, {TaskLabel, Agree})
  IN IF firstHan > 1
        /\ \E i \in 1..(firstHan - 1) : text[i] \in {TagGmt, "gmt", "[Wed 2026-02-18 13:39]"}
       THEN trim(SubSeq(text, firstHan, Len(text)))
     ELSE text

\* .replace(/^\[[^\]]*(?:cron|schedule|metadata|session|channel|U+65E5U+62A5|<TaskLabel>)[^\]]*\]\s*/i, " ")
\* No tag of the model holds a "]" before its end, so only a first symbol
\* that is a tag holding one of the words matches.  Then
\* .replace(/\[[A-Za-z]{3}\s+\d{4}-\d{2}-\d{2}[^\]]*GMT[+-]?\d+[^\]]*\]/g, " ")
stripTags(text) ==
  LET untagged == IF text # <<>> /\ text[1] = "[cron]"
                    THEN <<" ">> \o SubSeq(text, RunEnd(text, 2, SpaceSymbols), Len(text))
                  ELSE text
  IN [i \in 1..Len(untagged) |-> IF untagged[i] = TagGmt THEN " " ELSE untagged[i]]

\* .replace(/^[\s\]\)]*\d{1,2}:\d{2}\s*<TaskLabel>\s*[-:U+FF1A]\s*/i, " ")
stripTimedLabel(text) ==
  LET a == RunEnd(text, 1, SpaceSymbols)
      b == RunEnd(text, a + 1, SpaceSymbols)
      c == RunEnd(text, b + 1, SpaceSymbols)
  IN IF a > Len(text) \/ text[a] # "13:39" THEN text
     ELSE IF b > Len(text) \/ text[b] # TaskLabel THEN text
     ELSE IF c > Len(text) \/ text[c] # "-" THEN text
     ELSE <<" ">> \o SubSeq(text, RunEnd(text, c + 1, SpaceSymbols), Len(text))

\* compact.length
RECURSIVE Chars(_)
Chars(text) == IF text = <<>> THEN 0 ELSE Len(text[1]) + Chars(Tail(text))

\* compact.slice(0, n): the symbols that fit whole, then the first
\* characters of the symbol the cut falls in
RECURSIVE sliceChars(_, _)
sliceChars(text, n) ==
  IF text = <<>> \/ n <= 0 THEN <<>>
  ELSE IF Len(text[1]) <= n THEN <<text[1]>> \o sliceChars(Tail(text), n - Len(text[1]))
  ELSE <<SubSeq(text[1], 1, n)>>

truncateQuery_slicesToMaxChars(compact, maxChars) ==
  IF compact = <<>> THEN Null
  ELSE IF Chars(compact) <= maxChars THEN compact
  ELSE sliceChars(compact, maxChars) \o <<Ellipsis>>

\* if (!compact) return null; if (compact.length <= maxChars) return compact;
\* return compact.slice(0, maxChars - 1) followed by U+2026
truncateQuery(compact, maxChars) ==
  IF compact = <<>> THEN Null
  ELSE IF Chars(compact) <= maxChars THEN compact
  ELSE sliceChars(compact, maxChars - 1) \o <<Ellipsis>>

\* normalizeQueryText.  The replacements left out (image tags, markdown
\* images, code fences, the conversation and metadata wrappers, "Current
\* time:", the two instruction tails, conversation labels) match no text of
\* the model.
normalizeQuerySymbols(text, maxChars) ==
  LET compact == trim(collapseSpaces(stripTimedLabel(stripTags(redactInline(text)))))
  IN IF compact = <<>> THEN Null
     ELSE truncateQuery(sliceAtFirstHan(sliceAtAgree(stripLeadingNoise(compact))), maxChars)

\* a value of maxChars that texts of the model exceed; the callers pass 1200
ShortMaxChars == 8

InitQuery ==
  LET \* the texts normalizeQueryText is applied to: a tag part, a label part and
      \* a content part
      QueryTexts ==
        LET tags == {<<>>, <<TagGmt, " ">>, <<TagGmt>>, <<"[Wed 2026-02-18 13:39]", " ">>,
                     <<"[cron]", " ", " ">>, <<"gmt", " ">>, <<" ">>,
                     <<"time", " ", "-", " ", TagGmt, " ">>}
            labels == {<<>>, <<TaskLabel, " ", "-", " ">>,
                       <<"13:39", " ", TaskLabel, " ", "-", " ">>,
                       <<"time", " ", "-", " ">>, <<"hello", " ">>}
            contents == {<<>>, <<Agree>>, <<"hello">>, <<Agree, " ", " ", TagGmt>>,
                         <<"hello", Ellipsis>>, <<"hello", " ", "hello", " ", "-">>}
        IN {t \o l \o c : t \in tags, l \in labels, c \in contents}
  IN
  /\ now = 1
  /\ files = [p \in Paths |-> NoFile]
  /\ registry = EmptyMap
  /\ session_rollup = EmptyMap
  /\ session_fact = EmptyMap
  /\ token_daily = EmptyMap
  /\ ingest_file = EmptyMap
  /\ decoded = {}
  /\ changes = 0
  /\ runs = 0
  /\ lastPassAt = 0
  /\ crashPre = NoCrash
  /\ recovered = FALSE
  /\ ServerInit
  /\ FrontendInit
  /\ CheckoutInit
  /\ \E t \in QueryTexts, m \in {ShortMaxChars, 1200} :
       call = [fn |-> "normalizeQueryText", input |-> t, maxChars |-> m, outputs |-> <<>>]

NormalizeQuery ==
  /\ call.fn = "normalizeQueryText"
  /\ call.outputs = <<>>
  /\ call' = [call EXCEPT !.outputs = <<normalizeQuerySymbols(call.input, call.maxChars)>>]
  /\ UNCHANGED <<env, store, ghost, server, frontend, checkout>>

SpecQuery == InitQuery /\ [][NormalizeQuery]_vars

----------------------------------------------------------------------------
(* The frontend's refreshDashboard.  Each await is a step: the request is   *)
(* pending until the environment answers it or lets it fail (network error, *)
(* timeout, a status that is not ok, a payload that is not a JSON object).  *)

\* what the static file can hold: a dashboard the export script stamped
StaticPayloads(nowv) ==
  {[generatedAt |-> g, staticExportedAt |-> e] : g \in 1..nowv, e \in 1..nowv}

Pending(url) ==
  /\ fetches # <<>>
  /\ fetches[Len(fetches)] = [url |-> url, outcome |-> "pending"]

Settle(outcome) == [fetches EXCEPT ![Len(fetches)].outcome = outcome]

\* refreshDashboard up to its first await; a call during a refresh returns
\* a refreshDashboard without the test of refreshInFlight
RefreshStart_unguarded ==
  /\ refreshInFlight' = TRUE
  /\ fetches' = <<[url |-> "/api/dashboard", outcome |-> "pending"]>>
  /\ UNCHANGED <<state, env, store, ghost, call, server, checkout>>

\* refreshDashboard called (init, the refresh button, the interval) while no
\* refresh is in flight
RefreshStart ==
  /\ ~refreshInFlight
  /\ refreshInFlight' = TRUE
  /\ fetches' = <<[url |-> "/api/dashboard", outcome |-> "pending"]>>
  /\ UNCHANGED <<state, env, store, ghost, call, server, checkout>>

\* the live request answers: state is assigned, then the finally block
ApiOk ==
  LET \* what /api/dashboard can answer at a clock reading: a dashboard built then
      \* or, from the cache, earlier; buildDashboard sets no meta.staticExportedAt
      ApiPayloads(nowv) == {[generatedAt |-> g, staticExportedAt |-> 0] : g \in 1..nowv}
  IN
  /\ Pending("/api/dashboard")
  /\ \E data \in ApiPayloads(now) : state' = [data |-> data, staticMode |-> FALSE]
  /\ fetches' = Settle("ok")
  /\ refreshInFlight' = FALSE
  /\ UNCHANGED <<env, store, ghost, call, server, checkout>>

\* the live request throws: the inner catch requests the static file
ApiFail ==
  /\ Pending("/api/dashboard")
  /\ fetches' = Append(Settle("failed"), [url |-> "./data/dashboard.static.json", outcome |-> "pending"])
  /\ UNCHANGED <<state, refreshInFlight, env, store, ghost, call, server, checkout>>

\* a handler that takes staticMode from the state it replaces
StaticOk_keepsMode ==
  /\ Pending("./data/dashboard.static.json")
  /\ \E data \in StaticPayloads(now) : state' = [data |-> data, staticMode |-> state.staticMode]
  /\ fetches' = Settle("ok")
  /\ refreshInFlight' = FALSE
  /\ UNCHANGED <<env, store, ghost, call, server, checkout>>

\* the static request answers: state is assigned, then the finally block
StaticOk ==
  /\ Pending("./data/dashboard.static.json")
  /\ \E data \in StaticPayloads(now) : state' = [data |-> data, staticMode |-> TRUE]
  /\ fetches' = Settle("ok")
  /\ refreshInFlight' = FALSE
  /\ UNCHANGED <<env, store, ghost, call, server, checkout>>

\* the static request throws too: the outer catch reports, then the finally block
StaticFail ==
  /\ Pending("./data/dashboard.static.json")
  /\ fetches' = Settle("failed")
  /\ refreshInFlight' = FALSE
  /\ UNCHANGED <<state, env, store, ghost, call, server, checkout>>

\* refreshDashboard called while a refresh is in flight:
\* if (refreshInFlight) return;
RefreshIgnored ==
  /\ refreshInFlight
  /\ UNCHANGED vars

SpecFrontend ==
  Init /\ [][Tick \/ RefreshStart \/ RefreshIgnored \/ ApiOk \/ ApiFail \/ StaticOk
             \/ StaticFail]_vars

\* fetchJsonWithTimeout aborts its request after timeoutMs, so a pending
\* request answers or fails in the end
SpecFrontendLive ==
  SpecFrontend /\ WF_vars(ApiOk \/ ApiFail) /\ WF_vars(StaticOk \/ StaticFail)

----------------------------------------------------------------------------
(* The snapshot sync script.  Runs are started at any time and meet at the  *)
(* lock directory; what the run that holds the lock does from the export to *)
(* its exit is one step.                                                    *)

MaxContent == 2      \* contents of the snapshot file: 0..MaxContent
MaxAhead == 2        \* commits the local branch is ahead of its upstream, at most

\* someone working in the checkout stages a change to another path
StageOther ==
  /\ ~repo.otherStaged
  /\ repo' = [repo EXCEPT !.otherStaged = TRUE]
  /\ UNCHANGED <<lastSync, lockDir, syncPc, env, store, ghost, call, server, frontend>>

\* someone working in the checkout commits what is staged
LocalCommit ==
  /\ repo.ahead < MaxAhead
  /\ repo' = [repo EXCEPT !.head = repo.index, !.otherStaged = FALSE, !.ahead = @ + 1]
  /\ UNCHANGED <<lastSync, lockDir, syncPc, env, store, ghost, call, server, frontend>>

\* npm run export:static fails: set -e ends the run before git add (the
\* checkout's part of SyncFails)
SyncExportFails ==
  /\ lastSync' = [ran |-> TRUE, exported |-> FALSE, targetDiffers |-> FALSE,
                   committed |-> FALSE, pushed |-> FALSE, aheadAtPush |-> 0]
  /\ UNCHANGED <<repo, env, store, ghost, call, server, frontend>>

\* the checkout's part of SyncCompletes, a run of the script from the export
\* on: the export writes content, git add
\* stages it, git diff --cached --quiet compares the whole index with HEAD;
\* pushOk is the result of git push
SyncRun(content, pushOk) ==
  LET staged == [repo EXCEPT !.index = content]
      quiet == staged.index = staged.head /\ ~staged.otherStaged
      committed == [staged EXCEPT !.head = staged.index, !.otherStaged = FALSE,
                                  !.ahead = @ + 1]
      before == IF quiet THEN staged ELSE committed
      push == ~quiet \/ staged.ahead > 0
  IN /\ before.ahead <= MaxAhead
     /\ repo' = IF push /\ pushOk THEN [before EXCEPT !.ahead = 0] ELSE before
     /\ lastSync' = [ran |-> TRUE, exported |-> TRUE,
                      targetDiffers |-> staged.index # staged.head,
                      committed |-> ~quiet, pushed |-> push,
                      aheadAtPush |-> before.ahead]
     /\ UNCHANGED <<env, store, ghost, call, server, frontend>>

\* mkdir that succeeds although the directory exists (mkdir -p)
SyncStart_mkdirP(r) ==
  /\ syncPc[r] = "idle"
  /\ lockDir' = [exists |-> TRUE, by |-> r]
  /\ syncPc' = [syncPc EXCEPT ![r] = "locked"]
  /\ UNCHANGED <<repo, lastSync, env, store, ghost, call, server, frontend>>

\* a run starts: if ! mkdir "$LOCK_DIR"; then echo skip; exit 0; fi, then the
\* trap on EXIT is set.  mkdir makes the directory or fails in one step.  The
\* checkout exists, so the test for $REPO_DIR/.git before it passes.
SyncStart(r) ==
  /\ syncPc[r] = "idle"
  /\ IF lockDir.exists
       THEN /\ syncPc' = [syncPc EXCEPT ![r] = "skipped"]
            /\ lockDir' = lockDir
       ELSE /\ syncPc' = [syncPc EXCEPT ![r] = "locked"]
            /\ lockDir' = [exists |-> TRUE, by |-> r]
  /\ UNCHANGED <<repo, lastSync, env, store, ghost, call, server, frontend>>

\* the export of the run that holds the lock fails; the trap on EXIT removes
\* the lock directory
SyncFails(r) ==
  /\ syncPc[r] = "locked"
  /\ SyncExportFails
  /\ lockDir' = [exists |-> FALSE]
  /\ syncPc' = [syncPc EXCEPT ![r] = "failed"]

\* the run that holds the lock goes on to its end, with status 0 or, when
\* the push fails, with the status of the push; the trap on EXIT removes the
\* lock directory
SyncCompletes(r, content, pushOk) ==
  /\ syncPc[r] = "locked"
  /\ SyncRun(content, pushOk)
  /\ lockDir' = [exists |-> FALSE]
  /\ syncPc' = [syncPc EXCEPT ![r] = IF pushOk THEN "done" ELSE "failed"]

\* the script is started again (by its schedule, or by hand)
SyncAgain(r) ==
  /\ syncPc[r] \in {"skipped", "failed", "done"}
  /\ syncPc' = [syncPc EXCEPT ![r] = "idle"]
  /\ UNCHANGED <<repo, lastSync, lockDir, env, store, ghost, call, server, frontend>>

SpecSync ==
  Init /\ [][\/ StageOther
             \/ LocalCommit
             \/ \E r \in SyncRuns : SyncStart(r)
             \/ \E r \in SyncRuns : SyncFails(r)
             \/ \E r \in SyncRuns, content \in 0..MaxContent, pushOk \in BOOLEAN :
                  SyncCompletes(r, content, pushOk)
             \/ \E r \in SyncRuns : SyncAgain(r)]_vars

----------------------------------------------------------------------------
(* The format decoders as functions of a file.  A call draws the lines of *)
(* the file from the record kinds its decoder reads and from lines JSON.parse *)
(* throws on; the file was modified at time 2.                           *)

MaxLines == 3

InitDecode ==
  /\ now = 1
  /\ files = [p \in Paths |-> NoFile]
  /\ registry = EmptyMap
  /\ session_rollup = EmptyMap
  /\ session_fact = EmptyMap
  /\ token_daily = EmptyMap
  /\ ingest_file = EmptyMap
  /\ decoded = {}
  /\ changes = 0
  /\ runs = 0
  /\ lastPassAt = 0
  /\ crashPre = NoCrash
  /\ recovered = FALSE
  /\ ServerInit
  /\ FrontendInit
  /\ CheckoutInit
  /\ LET openClaw == {BadLine,
                      SessionLine("S2", 3),
                      SessionLine(Null, 1),
                      ModelChangeLine("m2"),
                      [L0 EXCEPT !.type = "custom", !.ts = 1],
                      UserLine("[Wed 2026-02-18 13:39 GMT+8] q1"),
                      UserLine("q2"),
                      UserLine("session_id: 1"),
                      AssistantLine("m1", 10, 0, 5, 0, 0),
                      [AssistantLine("", 1, 1, 0, 7, 3) EXCEPT !.cacheWrite = 2]}
         codex == {BadLine,
                   SessionMetaLine("S1", 3),
                   SessionMetaLine(Null, 0),
                   [TurnContextLine(" m1 ") EXCEPT !.ts = 1],
                   ResponseItemLine("AGENTS.md instructions"),
                   ResponseItemLine("<permissions instructions>"),
                   ResponseItemLine("q2"),
                   ResponseItemLine("session_id: 1"),
                   TokenCountLine(3, 4, 0),
                   TokenCountLine(5, 6, 12),
                   TokenCountLine(0, 0, 0)}
         stat(content) == [exists |-> TRUE, mtime |-> 2, size |-> SizeOf(content),
                           content |-> content]
     IN call \in
          {[fn |-> "parseOpenClawSessionFile", filePath |-> p, stat |-> stat(c),
            done |-> FALSE, result |-> NoRecord] :
             p \in {"a1/S1.jsonl", "a2/notes.jsonl"},
             c \in UNION {[1..n -> openClaw] : n \in 1..MaxLines}}
          \cup
          {[fn |-> "parseCodexSessionFile", filePath |-> "codex/c1.jsonl", stat |-> stat(c),
            done |-> FALSE, result |-> NoRecord] :
             c \in UNION {[1..n -> codex] : n \in 1..MaxLines}}

\* a decoder that gives the file up at a line JSON.parse throws on
ParseOpenClaw_abortsOnBadLine ==
  /\ call.fn = "parseOpenClawSessionFile"
  /\ ~call.done
  /\ call' = [call EXCEPT
                !.done = TRUE,
                !.result = IF \E i \in 1..Len(call.stat.content) : ~call.stat.content[i].ok
                           THEN NoRecord
                           ELSE parseOpenClawSessionFile(call.filePath, AgentOf(call.filePath),
                                                         call.stat, now)]
  /\ UNCHANGED <<env, store, ghost>>
  /\ UNCHANGED <<server, frontend, checkout>>

\* a decoder that takes the total to be the sum of its input and output
ParseOpenClaw_totalFromSums ==
  /\ call.fn = "parseOpenClawSessionFile"
  /\ ~call.done
  /\ \E r \in {parseOpenClawSessionFile(call.filePath, AgentOf(call.filePath), call.stat, now)} :
       call' = [call EXCEPT
                  !.done = TRUE,
                  !.result = IF r = NoRecord THEN r
                             ELSE [r EXCEPT !.totalTokens = r.inputTokens + r.outputTokens]]
  /\ UNCHANGED <<env, store, ghost>>
  /\ UNCHANGED <<server, frontend, checkout>>

ParseOpenClaw ==
  /\ call.fn = "parseOpenClawSessionFile"
  /\ ~call.done
  /\ call' = [call EXCEPT
                !.done = TRUE,
                !.result = parseOpenClawSessionFile(call.filePath, AgentOf(call.filePath),
                                                    call.stat, now)]
  /\ UNCHANGED <<env, store, ghost>>
  /\ UNCHANGED <<server, frontend, checkout>>

\* a decoder that keeps the counts of the first token_count event
ParseCodex_firstEvent ==
  /\ call.fn = "parseCodexSessionFile"
  /\ ~call.done
  /\ \E r \in {parseCodexSessionFile(call.filePath, call.stat, now)} :
     \E events \in {{i \in 1..Len(call.stat.content) :
                        call.stat.content[i].ok /\ call.stat.content[i].type = "token_count"}} :
       call' = [call EXCEPT
                  !.done = TRUE,
                  !.result =
                     IF events = {} THEN r
                     ELSE LET first == call.stat.content[CHOOSE i \in events :
                                                            \A j \in events : i <= j]
                          IN [r EXCEPT !.inputTokens = first.input,
                                       !.outputTokens = first.output,
                                       !.totalTokens = IF first.total # 0 THEN first.total
                                                       ELSE first.input + first.output]]
  /\ UNCHANGED <<env, store, ghost>>
  /\ UNCHANGED <<server, frontend, checkout>>

ParseCodex ==
  /\ call.fn = "parseCodexSessionFile"
  /\ ~call.done
  /\ call' = [call EXCEPT
                !.done = TRUE,
                !.result = parseCodexSessionFile(call.filePath, call.stat, now)]
  /\ UNCHANGED <<env, store, ghost>>
  /\ UNCHANGED <<server, frontend, checkout>>

SpecDecode == InitDecode /\ [][ParseOpenClaw \/ ParseCodex]_vars

----------------------------------------------------------------------------
(* aggregateUsage as a function of its records.  A call draws up to      *)
(* MaxRecords records: with and without token activity, with a counter   *)
(* that is no number, with equal, descending and missing timestamps.     *)

MaxRecords == 3

InitAggregate ==
  /\ now = 4
  /\ files = [p \in Paths |-> NoFile]
  /\ registry = EmptyMap
  /\ session_rollup = EmptyMap
  /\ session_fact = EmptyMap
  /\ token_daily = EmptyMap
  /\ ingest_file = EmptyMap
  /\ decoded = {}
  /\ changes = 0
  /\ runs = 0
  /\ lastPassAt = 0
  /\ crashPre = NoCrash
  /\ recovered = FALSE
  /\ ServerInit
  /\ FrontendInit
  /\ CheckoutInit
  /\ LET record(sessionId, model, updatedAt, i, o, t) ==
           [source |-> "openclaw", sessionId |-> sessionId, agentId |-> "a1",
            label |-> Null, model |-> model, updatedAt |-> updatedAt,
            inputTokens |-> i, outputTokens |-> o, totalTokens |-> t,
            inputQuery |-> Null, sourcePath |-> "sessions.json"]
         records == {record("S1", "m1", 3, 10, 5, 15),
                     record("S2", "m2", 1, 1, 1, 2),
                     record("S3", "Unknown", 2, 0, 0, 0),
                     record("S4", "m1", 0, 0, 0, 7),
                     record("S5", "m1", 1, NotFinite, 0, 4),
                     record("S6", "m2", 2, 0, -1, 0),
                     record("S7", "m2", 7, 2, 0, 0),
                     record("S8", "m1", 9, 1, 2, 3)}
     IN call \in {[fn |-> "aggregateUsage", records |-> rs, done |-> FALSE,
                   result |-> NoRecord] :
                    rs \in UNION {[1..n -> records] : n \in 0..MaxRecords}}

Aggregate ==
  /\ call.fn = "aggregateUsage"
  /\ ~call.done
  /\ call' = [call EXCEPT !.done = TRUE, !.result = aggregateUsage(call.records, now)]
  /\ UNCHANGED <<env, store, ghost>>
  /\ UNCHANGED <<server, frontend, checkout>>

SpecAggregate == InitAggregate /\ [][Aggregate]_vars

----------------------------------------------------------------------------
(* The detail pane.  openFileInDetail of the frontend shows the file of a   *)
(* card or of an agent; the handler of /api/file answers with               *)
(* readDetailFile.  A path is the sequence of its segments, "/" first when  *)
(* it is absolute; a resolved path is the string path.resolve returns.      *)

\* maxBytes of readDetailFile (200_000 in the source), in characters of the
\* texts of the model
DetailMaxBytes == 4

\* path.resolve(p): a path that is not absolute is taken from the working
\* directory of the server, "." is dropped, ".." drops the segment before it,
\* and the segments left are joined with path.sep
pathResolve(p) ==
  LET cwd == <<"home">>
      RECURSIVE normalize(_, _)
      normalize(segments, acc) ==
        IF segments = <<>> THEN acc
        ELSE IF segments[1] \in {".", ""} THEN normalize(Tail(segments), acc)
        ELSE IF segments[1] = ".."
          THEN normalize(Tail(segments),
                         IF acc = <<>> THEN acc ELSE SubSeq(acc, 1, Len(acc) - 1))
        ELSE normalize(Tail(segments), Append(acc, segments[1]))
      RECURSIVE join(_)
      join(segments) ==
        IF segments = <<>> THEN "" ELSE "/" \o segments[1] \o join(Tail(segments))
      resolved == normalize(IF p # <<>> /\ p[1] = "/" THEN Tail(p) ELSE cwd \o p, <<>>)
  IN IF resolved = <<>> THEN "/" ELSE join(resolved)

\* a test that takes every path beginning with the text of a root
insideAllowedRoots_noSeparator(target, roots) ==
  LET resolvedTarget == pathResolve(target)
  IN \E root \in roots :
       LET resolvedRoot == pathResolve(root)
       IN /\ Len(resolvedTarget) >= Len(resolvedRoot)
          /\ SubSeq(resolvedTarget, 1, Len(resolvedRoot)) = resolvedRoot

insideAllowedRoots(target, roots) ==
  LET startsWith(s, prefix) == Len(s) >= Len(prefix) /\ SubSeq(s, 1, Len(prefix)) = prefix
      resolvedTarget == pathResolve(target)
  IN \E root \in roots :
       LET resolvedRoot == pathResolve(root)
       IN \/ resolvedTarget = resolvedRoot
          \/ startsWith(resolvedTarget, resolvedRoot \o "/")

\* readDetailFile(filePath, dashboard) over the file system disk (resolved
\* path -> kind, size, content and what JSON.parse makes of the content).
\* The field fsOps lists the file-system calls made on the way: it is not
\* part of what the function returns.
readDetailFile(filePath, dashboard, disk) ==
  LET OPENCLAW_HOME == <<"/", "home", ".openclaw">>
      ROOT == <<"/", "app">>
      roots == {OPENCLAW_HOME, <<"/", "home", ".codex">>,
                <<"/", "opt", "homebrew", "lib", "node_modules", "openclaw">>, ROOT}
               \cup {agent.workspace : agent \in {a \in dashboard.agents : a.workspace # <<>>}}
      target == pathResolve(filePath)
      name == filePath[Len(filePath)]
      endsWithJson == Len(name) >= 5 /\ SubSeq(name, Len(name) - 4, Len(name)) = ".json"
  IN IF ~insideAllowedRoots(filePath, roots)
       THEN [ok |-> FALSE, error |-> "Path is outside allowed roots.", fsOps |-> <<>>]
     ELSE IF target \notin DOMAIN disk
       THEN [ok |-> FALSE, error |-> "File does not exist.", fsOps |-> <<"access">>]
     ELSE IF disk[target].kind # "file"
       THEN [ok |-> FALSE, error |-> "Target is not a regular file.",
             fsOps |-> <<"access", "stat">>]
     ELSE LET stat == disk[target]
              truncated == stat.size > DetailMaxBytes
              partial == IF truncated THEN sliceChars(stat.content, DetailMaxBytes)
                         ELSE stat.content
          IN [ok |-> TRUE, filePath |-> filePath, size |-> stat.size,
              truncated |-> truncated,
              content |-> IF endsWithJson /\ stat.json.kind \in {"obj", "arr"}
                            THEN [json |-> redactObject(stat.json)]
                          ELSE [text |-> redactInline(partial)],
              fsOps |-> <<"access", "stat", "read">>]

\* the handler of /api/file for the query of a request, with or without the
\* parameter path; getDashboardCached runs a pass when the cache is not
\* fresh: ws are the writes of that pass and n is the number of them after
\* which the store throws (-1: it does not throw, 0: it cannot be opened)
ApiFile(ws, n) ==
  LET \* the paths /api/file is asked for
      DetailPaths ==
        {<<>>,
         <<"/", "home", ".openclaw", "openclaw.json">>,
         <<"/", "home", ".openclaw">>,
         <<"/", "home", ".openclaw", "gone.md">>,
         <<"/", "home", ".openclaw", "..", ".ssh", "id_rsa">>,
         <<"/", "home", ".codexevil", "x.md">>,
         <<".codex", "big.md">>,
         <<"..", "etc", "passwd">>,
         <<"/", "ws", "a1", "notes.md">>,
         <<"/", "ws", "a2", "notes.md">>,
         <<"/", "etc", "..", "app", ".", "server.js">>}
      \* the queries of the requests: no parameter path, or a path
      DetailQueries == {[other |-> "x"]} \cup {[path |-> p] : p \in DetailPaths}
  IN
  /\ call.fn = "/api/file"
  /\ \E query \in DetailQueries :
     LET \* requestUrl.searchParams.get("path"), where it is not null
         filePath == query.path
         result == readDetailFile(filePath, [agents |-> call.agents], call.disk)
         \* jsonResponse(res, result.ok ? 200 : 400, result)
         answer == [status |-> IF result.ok THEN 200 ELSE 400,
                    body |-> [f \in DOMAIN result \ {"fsOps"} |-> result[f]]]
     IN
     IF "path" \notin DOMAIN query \/ query.path = <<>> THEN
          /\ n = -1
          /\ response' = [status |-> 400, body |-> [error |-> "Missing path parameter."]]
          /\ call' = [call EXCEPT !.served = <<[query |-> query, fsOps |-> <<>>]>>]
          /\ UNCHANGED <<store, ghost, dashboardCache, dashboardCacheAt, triggeredAt, threw>>
        ELSE IF CacheFresh THEN
          /\ n = -1
          /\ response' = answer
          /\ call' = [call EXCEPT !.served = <<[query |-> query, fsOps |-> result.fsOps]>>]
          /\ UNCHANGED <<store, ghost, dashboardCache, dashboardCacheAt, triggeredAt, threw>>
        ELSE
            IF n >= 0 THEN
              /\ n < Len(ws)
              /\ changes < MaxChanges
              /\ threw' = n
              /\ response' = [status |-> 500, body |-> [error |-> "Failed to read file"]]
              /\ call' = [call EXCEPT !.served = <<[query |-> query, fsOps |-> <<>>]>>]
              /\ triggeredAt' = now
              /\ changes' = changes + 1
              /\ runs' = 0
              /\ UNCHANGED <<decoded, lastPassAt, crashPre, recovered,
                             dashboardCache, dashboardCacheAt>>
              /\ \E db \in {ApplyOps(DB, ws, n)} :
                   /\ session_rollup' = db.rollup
                   /\ session_fact' = db.fact
                   /\ token_daily' = db.daily
                   /\ ingest_file' = db.ingest
            ELSE
              /\ threw' = -1
              /\ dashboardCacheAt' = now
              /\ triggeredAt' = now
              /\ lastPassAt' = now
              /\ \E db \in {ApplyOps(DB, ws, Len(ws))} :
                   /\ session_rollup' = db.rollup
                   /\ session_fact' = db.fact
                   /\ token_daily' = db.daily
                   /\ ingest_file' = db.ingest
                   /\ dashboardCache' = buildDashboard(db, now)
              /\ response' = answer
              /\ call' = [call EXCEPT !.served = <<[query |-> query, fsOps |-> result.fsOps]>>]
              /\ decoded' = decodedFiles(DB, files)
              /\ runs' = IF runs < 2 THEN runs + 1 ELSE 2
              /\ crashPre' = NoCrash
              /\ recovered' = FALSE
              /\ UNCHANGED changes
  /\ UNCHANGED <<env, frontend, checkout>>

\* an openFileInDetail that asks the server whenever the snapshot holds no
\* content for the path
OpenFileInDetail_skipsStaticMode ==
  LET filePath == call.filePath
      staticFile == IF /\ "staticFiles" \in DOMAIN state.data
                       /\ filePath \in DOMAIN state.data.staticFiles
                      THEN state.data.staticFiles[filePath]
                    ELSE [undefined |-> TRUE]
  IN
  /\ call.fn = "openFileInDetail"
  /\ call.shown = [kind |-> "closed"]
  /\ call' = [call EXCEPT
       !.shown =
         IF filePath = Null
           THEN [kind |-> "empty",
                 text |-> IF call.emptyMessage \in {Null, ""}
                            THEN "This item has no source file path."
                          ELSE call.emptyMessage]
         ELSE IF "content" \in DOMAIN staticFile
           THEN [kind |-> "content",
                 text |-> staticFile.content
                          \o (IF staticFile.truncated THEN "\n\n[File truncated for preview]"
                              ELSE "")]
         ELSE [kind |-> "loading", text |-> "Loading file content..."],
       !.request =
         IF filePath # Null /\ "content" \notin DOMAIN staticFile
           THEN <<[url |-> "/api/file", path |-> filePath]>>
         ELSE <<>>]
  /\ UNCHANGED <<env, store, ghost, server, frontend, checkout>>

\* openFileInDetail({title, subtitle, meta, filePath, emptyMessage}) up to its
\* first await: what the detail pane shows (shown) and the request it issues
OpenFileInDetail ==
  LET filePath == call.filePath
      \* state.data?.staticFiles?.[filePath]
      staticFile == IF /\ "staticFiles" \in DOMAIN state.data
                       /\ filePath \in DOMAIN state.data.staticFiles
                      THEN state.data.staticFiles[filePath]
                    ELSE [undefined |-> TRUE]
      \* typeof staticFile.content === "string"
      hasContent == "content" \in DOMAIN staticFile
      \* staticFile?.error
      hasError == "error" \in DOMAIN staticFile /\ staticFile.error # ""
  IN
  /\ call.fn = "openFileInDetail"
  /\ call.shown = [kind |-> "closed"]
  /\ call' = [call EXCEPT
       !.shown =
         IF filePath = Null
           THEN [kind |-> "empty",
                 text |-> IF call.emptyMessage \in {Null, ""}
                            THEN "This item has no source file path."
                          ELSE call.emptyMessage]
         ELSE IF hasContent
           THEN [kind |-> "content",
                 text |-> staticFile.content
                          \o (IF staticFile.truncated THEN "\n\n[File truncated for preview]"
                              ELSE "")]
         ELSE IF state.staticMode
           THEN IF hasError THEN [kind |-> "error", text |-> "Error: " \o staticFile.error]
                ELSE [kind |-> "static",
                      text |-> "No exported file content for this card in static mode."]
         ELSE [kind |-> "loading", text |-> "Loading file content..."],
       !.request =
         IF filePath # Null /\ ~hasContent /\ ~state.staticMode
           THEN <<[url |-> "/api/file", path |-> filePath]>>
         ELSE <<>>]
  /\ UNCHANGED <<env, store, ghost, server, frontend, checkout>>

\* the rest of openFileInDetail: the request settles with an answer of the
\* server, or fetch or res.json() throws
ShowAnswer ==
  LET \* what the request can settle with: a file, a truncated file, an answer
      \* that is not ok with and without an error text, no answer
      FileAnswers ==
        {[ok |-> TRUE, payload |-> [content |-> "notes", truncated |-> FALSE]],
         [ok |-> TRUE, payload |-> [content |-> "big", truncated |-> TRUE]],
         [ok |-> FALSE, payload |-> [error |-> "File does not exist."]],
         [ok |-> FALSE, payload |-> [detail |-> "x"]],
         [threw |-> "Failed to fetch"]}
  IN
  /\ call.fn = "openFileInDetail"
  /\ call.request # <<>>
  /\ call.shown.kind = "loading"
  /\ \E answer \in FileAnswers : call' = [call EXCEPT
       !.shown =
         IF "threw" \in DOMAIN answer
           THEN [kind |-> "error", text |-> "Error: " \o answer.threw]
         ELSE IF ~answer.ok
           THEN [kind |-> "error",
                 text |-> "Error: " \o (IF "error" \in DOMAIN answer.payload
                                          /\ answer.payload.error # ""
                                          THEN answer.payload.error
                                        ELSE "Failed to load file")]
         ELSE [kind |-> "content",
               text |-> answer.payload.content
                        \o (IF answer.payload.truncated
                              THEN "\n\n[File truncated for preview]" ELSE "")]]
  /\ UNCHANGED <<env, store, ghost, server, frontend, checkout>>

\* one use of the detail pane or of /api/file.  The frontend holds no data, a
\* dashboard of the server (no staticFiles) or, in static mode, a snapshot
\* with the staticFiles the export script wrote; the server has two agents,
\* one of them without a workspace, and a file system of files and
\* directories inside and outside the allowed roots.
InitDetail ==
  LET staticFiles ==
        [p \in {"/ws/a1/notes.md", "/ws/a1/big.md", "/ws/a1/empty.md", "/ws/a1/gone.md"} |->
           CASE p = "/ws/a1/notes.md" -> [content |-> "notes", truncated |-> FALSE]
             [] p = "/ws/a1/big.md" -> [content |-> "big", truncated |-> TRUE]
             [] p = "/ws/a1/empty.md" -> [content |-> "", truncated |-> FALSE]
             [] OTHER -> [error |-> "File does not exist."]]
      states == {[data |-> NoData, staticMode |-> FALSE],
                 [data |-> [generatedAt |-> 1, staticExportedAt |-> 0], staticMode |-> FALSE],
                 [data |-> [generatedAt |-> 1, staticExportedAt |-> 1,
                            staticFiles |-> staticFiles], staticMode |-> TRUE]}
      filePaths == {Null, "/ws/a1/notes.md", "/ws/a1/big.md", "/ws/a1/empty.md",
                    "/ws/a1/gone.md", "/ws/a1/later.md"}
      text == <<"client_id", ":", " ", "sk-abcdefghij">>
      disk ==
        [p \in {"/home/.openclaw", "/home/.openclaw/openclaw.json", "/home/.codex/big.md",
                "/home/.codexevil/x.md", "/home/.ssh/id_rsa", "/etc/passwd",
                "/ws/a1/notes.md", "/ws/a2/notes.md", "/app/server.js"} |->
           CASE p = "/home/.openclaw" ->
                  [kind |-> "dir", size |-> 0, content |-> <<>>, json |-> [kind |-> "null"]]
             [] p = "/home/.openclaw/openclaw.json" ->
                  [kind |-> "file", size |-> 3, content |-> <<"{", "a", "}">>,
                   json |-> [kind |-> "obj",
                             o |-> [key \in {"apiKey"} |->
                                      [kind |-> "str", s |-> <<"a", "b", "c">>]]]]
             [] p = "/home/.codex/big.md" ->
                  [kind |-> "file", size |-> Chars(text), content |-> text,
                   json |-> [kind |-> "null"]]
             [] OTHER ->
                  [kind |-> "file", size |-> 1, content |-> <<"a">>,
                   json |-> [kind |-> "null"]]]
      agents == {[id |-> "a1", workspace |-> <<"/", "ws", "a1">>],
                 [id |-> "a2", workspace |-> <<>>]}
  IN
  /\ now = 1
  /\ files = [p \in Paths |-> NoFile]
  /\ registry = EmptyMap
  /\ session_rollup = EmptyMap
  /\ session_fact = EmptyMap
  /\ token_daily = EmptyMap
  /\ ingest_file = EmptyMap
  /\ decoded = {}
  /\ changes = 0
  /\ runs = 0
  /\ lastPassAt = 0
  /\ crashPre = NoCrash
  /\ recovered = FALSE
  /\ ServerInit
  /\ refreshInFlight = FALSE
  /\ fetches = <<>>
  /\ CheckoutInit
  /\ \/ /\ state \in states
        /\ \E filePath \in filePaths,
              emptyMessage \in {Null, "This card has no source file path."} :
             call = [fn |-> "openFileInDetail", filePath |-> filePath,
                     emptyMessage |-> emptyMessage, shown |-> [kind |-> "closed"],
                     request |-> <<>>]
     \/ /\ state = [data |-> NoData, staticMode |-> FALSE]
        /\ call = [fn |-> "/api/file", agents |-> agents, disk |-> disk,
                   served |-> <<>>]

SpecDetail ==
  InitDetail /\ [][\/ Tick
                   \/ OpenFileInDetail
                   \/ ShowAnswer
                   \/ \E ws \in {ingestDashboardData(DB, files, registry, now)} :
                      \E n \in -1..MaxWritesOfPass : ApiFile(ws, n)]_vars

----------------------------------------------------------------------------
(* Properties of the ingestion pass *)

\* a step that is one complete ingestion pass
PassStep ==
  /\ now' = now
  /\ files' = files
  /\ registry' = registry
  /\ lastPassAt' = now
  /\ runs' >= 1

SessionTablesUnchanged ==
  /\ session_rollup' = session_rollup
  /\ session_fact' = session_fact
  /\ token_daily' = token_daily

C1_RegistryStamped ==
  \A k \in DOMAIN registry :
    (registry[k].sessionId # Null /\ hasTokenActivity(registry[k]))
      => registry[k].updatedAt > 0

\* no stored row is older than the retention cutoff of a pass started now
C1_NoRowExpires ==
  /\ \A k \in DOMAIN session_rollup :
       session_rollup[k].updated_at >= now - SESSION_RETENTION_MS
  /\ \A k \in DOMAIN session_fact :
       session_fact[k].updated_at >= now - SESSION_RETENTION_MS

C2_DailyBucketOutlivesPrunedRow ==
  [][PassStep =>
       \A k \in DOMAIN session_rollup :
         (/\ session_rollup[k].updated_at < now - SESSION_RETENTION_MS
          /\ k \notin DOMAIN session_rollup'
          /\ DailyKey(session_rollup[k]) \in DOMAIN token_daily)
           => DailyKey(session_rollup[k]) \in DOMAIN token_daily']_vars

\* C3: after a complete pass neither session_fact nor session_rollup holds a
\* row whose updated_at is earlier than the pass's start minus the retention
\* window.
C3_NoRowOlderThanRetention ==
  lastPassAt # 0 =>
    /\ \A k \in DOMAIN session_fact :
         session_fact[k].updated_at >= lastPassAt - SESSION_RETENTION_DAYS * DayMs
    /\ \A k \in DOMAIN session_rollup :
         session_rollup[k].updated_at >= lastPassAt - SESSION_RETENTION_DAYS * DayMs

\* a log file with token activity was ingested, the last pass started more
\* than the retention window after its last timestamp, and its row is gone
C3_Witness ==
  /\ lastPassAt # 0
  /\ files["a1/S1.jsonl"].exists
  /\ files["a1/S1.jsonl"].content = K1
  /\ <<"openclaw", "a1/S1.jsonl">> \in DOMAIN ingest_file
  /\ files["a1/S1.jsonl"].mtime < lastPassAt - SESSION_RETENTION_DAYS * DayMs
  /\ <<"openclaw", "S1">> \notin DOMAIN session_fact
  /\ <<"openclaw", "S1">> \notin DOMAIN session_rollup

\* all three counters zero and the model unknown
C4_Noise(tokensIn, tokensOut, tokensTotal, model) ==
  /\ tokensIn = 0 /\ tokensOut = 0 /\ tokensTotal = 0
  /\ model \in {Null, "", " ", "Unknown"}

\* C4: a record with zero input, output and total tokens and model "Unknown"
\* is never written to session_fact or session_rollup, is never stored, and
\* never appears in what readSessionPointsFromDb or aggregateUsage return.
C4_NoiseNeverStored ==
  /\ \A k \in DOMAIN session_fact :
       ~C4_Noise(session_fact[k].input_tokens, session_fact[k].output_tokens,
                 session_fact[k].total_tokens, session_fact[k].model)
  /\ \A k \in DOMAIN session_rollup :
       ~C4_Noise(session_rollup[k].input_tokens, session_rollup[k].output_tokens,
                 session_rollup[k].total_tokens, session_rollup[k].model)
  /\ LET ws == ingestDashboardData(DB, files, registry, now)
     IN \A i \in DOMAIN ws :
          ws[i].op \in {"upsertRollup", "upsertFact"} =>
            ~C4_Noise(ws[i].row.input_tokens, ws[i].row.output_tokens,
                      ws[i].row.total_tokens, ws[i].row.model)
  /\ LET points == readSessionPointsFromDb(DB)
         usage == aggregateUsage(points, now)
     IN /\ \A i \in DOMAIN points :
             ~C4_Noise(points[i].inputTokens, points[i].outputTokens,
                       points[i].totalTokens, points[i].model)
        /\ \A i \in DOMAIN usage.points :
             ~C4_Noise(usage.points[i].inputTokens, usage.points[i].outputTokens,
                       usage.points[i].totalTokens, usage.points[i].model)

\* a pass has run over a log file that decodes to a noise record and over a
\* registry entry that is one
C4_Witness ==
  /\ runs >= 1
  /\ files["a1/S1.jsonl"].content = K3
  /\ "a1/S1.jsonl" \in decoded
  /\ \E k \in DOMAIN registry :
       /\ registry[k].sessionId # Null
       /\ C4_Noise(registry[k].inputTokens, registry[k].outputTokens,
                   registry[k].totalTokens, registry[k].model)

C6_RegistryTokensOnlyWhenPositive ==
  (call.fn = "mergeOpenClawParsedWithRegistry" /\ call.done) =>
    IF call.registryRecord = NoRecord THEN call.result = call.parsed
    ELSE
      /\ \A f \in {"inputTokens", "outputTokens", "totalTokens"} :
           /\ call.registryRecord[f] > 0 => call.result[f] = call.registryRecord[f]
           /\ ~(call.registryRecord[f] > 0) => call.result[f] = call.parsed[f]
      /\ (call.parsed.totalTokens = 500 /\ call.registryRecord.totalTokens = 0)
           => call.result.totalTokens = 500
      /\ call.registryRecord.totalTokens = 700 => call.result.totalTokens = 700

\* the merge has returned for parsed total 500 and registry total 0
C6_Witness ==
  /\ call.fn = "mergeOpenClawParsedWithRegistry"
  /\ call.done
  /\ call.registryRecord # NoRecord
  /\ call.parsed.totalTokens = 500
  /\ call.registryRecord.totalTokens = 0
  /\ call.registryRecord.inputTokens = 700
  /\ call.result.totalTokens = 500
  /\ call.result.inputTokens = 700

\* the source under which a log file is ingested
SourceOf(p) == IF p \in CodexPaths THEN "codex" ELSE "openclaw"

\* ingest_file has no row for the file, or the row's mtime_ms or size_bytes
\* is not the file's current one
C7_StateDiffers(p) ==
  \/ <<SourceOf(p), p>> \notin DOMAIN ingest_file
  \/ ingest_file[<<SourceOf(p), p>>].mtime_ms # files[p].mtime
  \/ ingest_file[<<SourceOf(p), p>>].size_bytes # files[p].size

\* C7: a discovered log file is decoded in a pass if and only if ingest_file
\* has no row for (source, path) or the stored mtime_ms or size_bytes differs
\* from the file's current mtime and size; a decoded file has its state
\* recorded, and a pass over files unchanged since the last pass decodes none.
C7_DecodedIffChanged ==
  [][PassStep =>
       /\ \A p \in Paths :
            /\ p \in decoded' <=> (files[p].exists /\ C7_StateDiffers(p))
            /\ p \in decoded' =>
                 /\ <<SourceOf(p), p>> \in DOMAIN ingest_file'
                 /\ ingest_file'[<<SourceOf(p), p>>] =
                      [mtime_ms |-> files[p].mtime, size_bytes |-> files[p].size,
                       ingested_at |-> now]
            /\ (p \notin decoded' /\ <<SourceOf(p), p>> \in DOMAIN ingest_file) =>
                 /\ <<SourceOf(p), p>> \in DOMAIN ingest_file'
                 /\ ingest_file'[<<SourceOf(p), p>>] = ingest_file[<<SourceOf(p), p>>]
       /\ runs >= 1 => decoded' = {}]_vars

\* a log file was decoded and its state recorded, and the pass after that,
\* over the unchanged files, decoded none
C7_Witness ==
  /\ runs = 2
  /\ decoded = {}
  /\ files["a2/notes.jsonl"].exists
  /\ files["a2/notes.jsonl"].content = K6
  /\ <<"openclaw", "a2/notes.jsonl">> \in DOMAIN ingest_file
  /\ ingest_file[<<"openclaw", "a2/notes.jsonl">>].size_bytes = SizeOf(K6)
  /\ <<"openclaw", "S1">> \in DOMAIN session_fact
  /\ session_fact[<<"openclaw", "S1">>].agent_id = "a2"

\* position of a path in the directory listing, of an agent in the configuration
C8_ListPos(p) == CHOOSE i \in 1..Len(Listing) : Listing[i] = p
C8_AgentPos(p) == CHOOSE i \in 1..Len(AgentIds) : AgentIds[i] = AgentOf(p)

\* the pass processes openclaw file p before openclaw file q
C8_Before(p, q) ==
  \/ C8_AgentPos(p) < C8_AgentPos(q)
  \/ /\ C8_AgentPos(p) = C8_AgentPos(q)
     /\ \/ files[p].mtime < files[q].mtime
        \/ files[p].mtime = files[q].mtime /\ C8_ListPos(p) < C8_ListPos(q)

C8_Rec(p) == parseOpenClawSessionFile(p, AgentOf(p), files[p], now)

\* p and q are decoded in this pass to records of one session that has no
\* registry record, and q is the last file of that session the pass processes
C8_LaterOfTwo(p, q) ==
  /\ p \in decoded' /\ q \in decoded'
  /\ p # q
  /\ C8_Rec(p) # NoRecord /\ C8_Rec(q) # NoRecord
  /\ C8_Rec(p).sessionId = C8_Rec(q).sessionId
  /\ C8_Before(p, q)
  /\ \A r \in (decoded' \cap OpenClawPaths) \ {p, q} :
       (C8_Rec(r) # NoRecord /\ C8_Rec(r).sessionId = C8_Rec(q).sessionId) => C8_Before(r, q)
  /\ \A k \in DOMAIN registry : registry[k].sessionId # C8_Rec(q).sessionId

\* after the pass the one fact row of the record's session carries its values
C8_RowIs(rec) ==
  /\ <<"openclaw", rec.sessionId>> \in DOMAIN session_fact'
  /\ session_fact'[<<"openclaw", rec.sessionId>>].updated_at = rec.updatedAt
  /\ session_fact'[<<"openclaw", rec.sessionId>>].input_tokens = rec.inputTokens
  /\ session_fact'[<<"openclaw", rec.sessionId>>].output_tokens = rec.outputTokens
  /\ session_fact'[<<"openclaw", rec.sessionId>>].total_tokens = rec.totalTokens
  /\ session_fact'[<<"openclaw", rec.sessionId>>].model = rec.model

\* C8 (as stated): when two log files of one source carry the same sessionId
\* and are ingested in one pass, with no registry record for the session, one
\* fact row exists for the session afterwards and its updatedAt, token counts
\* and model are those decoded from the file processed later.
C8_LaterFileWins ==
  [][PassStep =>
       \A p \in OpenClawPaths, q \in OpenClawPaths :
         C8_LaterOfTwo(p, q) => C8_RowIs(C8_Rec(q))]_vars

\* C8 (amended): as above, provided the record decoded from the file
\* processed later has token activity and its updatedAt is not older than
\* the pass's retention cutoff.
C8_LaterFileWinsWhenStored ==
  [][PassStep =>
       \A p \in OpenClawPaths, q \in OpenClawPaths :
         (/\ C8_LaterOfTwo(p, q)
          /\ hasTokenActivity(C8_Rec(q))
          /\ C8_Rec(q).updatedAt >= now - SESSION_RETENTION_MS)
           => C8_RowIs(C8_Rec(q))]_vars

\* the two files of session S1 were decoded in one pass, (in 10, out 5) first
\* and (in 10, out 5, out 5 more under model m2) later, and the row carries
\* the later file's values
C8_Witness ==
  /\ lastPassAt # 0
  /\ {"a1/S1.jsonl", "a1/S1.jsonl.deleted.1"} \subseteq decoded
  /\ registry = EmptyMap
  /\ files["a1/S1.jsonl"].content = K1
  /\ files["a1/S1.jsonl"].mtime < files["a1/S1.jsonl.deleted.1"].mtime
  /\ <<"openclaw", "S1">> \in DOMAIN session_fact
  /\ session_fact[<<"openclaw", "S1">>].output_tokens = 10
  /\ session_fact[<<"openclaw", "S1">>].input_tokens = 10
  /\ session_fact[<<"openclaw", "S1">>].model = "m2"
  /\ session_fact[<<"openclaw", "S1">>].updated_at = 3

\* C9: an upsert on an existing (source, session_id) overwrites every field
\* of the session_rollup row, and every field of the session_fact row except
\* that label, input_query and source_path keep the stored value when the
\* incoming value is null or empty; an upsert with a null inputQuery never
\* blanks a stored input_query.
C9_UpsertOverwritesButKeepsText ==
  (/\ call.fn = "upsertSession" /\ call.done
   /\ call.stored # NoRecord
   /\ hasTokenActivity(call.row)) =>
    LET row == call.row
        old == call.stored
        key == <<"openclaw", row.sessionId>>
        query == normalizeQueryText(row.inputQuery)
        rollup == [source |-> "openclaw", session_id |-> row.sessionId,
                   agent_id |-> IF row.agentId \in {Null, ""} THEN Null ELSE row.agentId,
                   model |-> normalizeModelName(row.model),
                   updated_at |-> IF row.updatedAt > 0 THEN row.updatedAt ELSE now,
                   input_tokens |-> row.inputTokens,
                   output_tokens |-> row.outputTokens,
                   total_tokens |-> IF row.totalTokens # 0 THEN row.totalTokens
                                    ELSE row.inputTokens + row.outputTokens]
    IN /\ key \in DOMAIN session_rollup /\ key \in DOMAIN session_fact
       /\ session_rollup[key] = rollup
       /\ \A f \in DOMAIN rollup : session_fact[key][f] = rollup[f]
       /\ session_fact[key].label =
            IF row.label \in {Null, ""} THEN old.label ELSE row.label
       /\ session_fact[key].input_query =
            IF query \in {Null, ""} THEN old.input_query ELSE query
       /\ session_fact[key].source_path =
            IF row.sourcePath \in {Null, ""} THEN old.source_path ELSE row.sourcePath
       /\ row.inputQuery = Null => session_fact[key].input_query = old.input_query

\* an upsert with a null inputQuery and a new label and counters has run on
\* a stored row that had a query and a label
C9_Witness ==
  /\ call.fn = "upsertSession" /\ call.done
  /\ call.stored # NoRecord
  /\ call.stored.input_query = "q0" /\ call.stored.label = "L0"
  /\ call.row.inputQuery = Null /\ call.row.label = "L1"
  /\ call.row.totalTokens = 5 /\ call.row.sourcePath = ""
  /\ session_fact[<<"openclaw", "S1">>].input_query = "q0"
  /\ session_fact[<<"openclaw", "S1">>].label = "L1"
  /\ session_fact[<<"openclaw", "S1">>].total_tokens = 5
  /\ session_rollup[<<"openclaw", "S1">>].total_tokens = 5

\* the store one uninterrupted pass, started now from the store the
\* interrupted pass started from, produces
C10_Uninterrupted ==
  LET ws == ingestDashboardData(crashPre, files, registry, now)
  IN ApplyOps(crashPre, ws, Len(ws))

\* ingest_file without the column ingested_at
C10_FileState(ingest) ==
  [k \in DOMAIN ingest |->
     [mtime_ms |-> ingest[k].mtime_ms, size_bytes |-> ingest[k].size_bytes]]

\* C10 (as stated): if a pass is interrupted after any one of its store
\* writes and a complete pass is then run over the same inputs, the
\* resulting store equals the store one uninterrupted pass produces.
C10_RerunEqualsUninterrupted ==
  [][(crashPre # NoCrash /\ PassStep) =>
       /\ session_rollup' = C10_Uninterrupted.rollup
       /\ session_fact' = C10_Uninterrupted.fact
       /\ token_daily' = C10_Uninterrupted.daily
       /\ ingest_file' = C10_Uninterrupted.ingest]_vars

\* C10 (amended): as above for session_rollup, session_fact, token_daily and
\* the mtime_ms and size_bytes of ingest_file; ingested_at of a file whose
\* state the interrupted pass recorded stays the start of that pass.
C10_RerunEqualsUninterruptedButIngestedAt ==
  [][(crashPre # NoCrash /\ PassStep) =>
       /\ session_rollup' = C10_Uninterrupted.rollup
       /\ session_fact' = C10_Uninterrupted.fact
       /\ token_daily' = C10_Uninterrupted.daily
       /\ C10_FileState(ingest_file') = C10_FileState(C10_Uninterrupted.ingest)
       /\ \A k \in DOMAIN ingest_file' :
            ingest_file'[k].ingested_at # now =>
              (k \in DOMAIN ingest_file /\ ingest_file'[k] = ingest_file[k])]_vars

\* a complete pass has run after an interrupted one, at a later clock
\* reading, and skipped a file the interrupted pass had recorded
C10_Witness ==
  /\ recovered
  /\ session_fact # EmptyMap
  /\ token_daily # EmptyMap
  /\ \E k \in DOMAIN ingest_file : ingest_file[k].ingested_at < lastPassAt

\* the position, among the writes of the pass that starts now, of the write
\* that records the state of file p (the last write of the file's loop body)
C11_WritePos(p) ==
  LET ws == ingestDashboardData(DB, files, registry, now)
  IN CHOOSE i \in 1..Len(ws) :
       ws[i].op = "upsertIngest" /\ ws[i].source = SourceOf(p) /\ ws[i].file_path = p

\* C11: within one pass the changed files of a source are decoded and
\* upserted in ascending modification-time order: of any two files of the
\* same source the one with the later mtime is upserted later, for any
\* number of agents.
C11_AscendingMtimePerSource ==
  [][PassStep =>
       \A p \in Paths, q \in Paths :
         (/\ p \in decoded' /\ q \in decoded'
          /\ SourceOf(p) = SourceOf(q)
          /\ files[p].mtime < files[q].mtime)
           => C11_WritePos(p) < C11_WritePos(q)]_vars

\* the grouping of the rollup rows with total_tokens > 0 by UTC day, source and model
C12_Grouping(rollup) ==
  LET rows == {k \in DOMAIN rollup : rollup[k].total_tokens > 0}
      keyOf(k) == <<rollup[k].updated_at \div DayMs, rollup[k].source, rollup[k].model>>
      group(dk) == {k \in rows : keyOf(k) = dk}
  IN [dk \in {keyOf(k) : k \in rows} |->
        [day |-> dk[1], source |-> dk[2], model |-> dk[3],
         input_tokens |-> SumOver(group(dk), [k \in group(dk) |-> rollup[k].input_tokens]),
         output_tokens |-> SumOver(group(dk), [k \in group(dk) |-> rollup[k].output_tokens]),
         total_tokens |-> SumOver(group(dk), [k \in group(dk) |-> rollup[k].total_tokens]),
         sessions |-> Cardinality(group(dk))]]

\* C12: in every completed pass the token_daily rebuild (DELETE, then INSERT)
\* runs exactly once and is the last store write of the pass, after every
\* session upsert and after the pruning steps; at the end of the pass
\* token_daily is the grouping of the session_rollup rows with total_tokens > 0.
C12_RebuildOnceAndLast ==
  [][PassStep =>
       LET ws == ingestDashboardData(DB, files, registry, now)
           n == Len(ws)
       IN /\ n >= 2
          /\ ws[n - 1].op = "deleteDaily"
          /\ ws[n].op = "insertDaily"
          /\ \A i \in 1..(n - 2) : ws[i].op \notin {"deleteDaily", "insertDaily"}
          /\ token_daily' = C12_Grouping(session_rollup')]_vars

\* a pass has upserted two sessions, pruned one of them by retention and
\* left the bucket of the other
C12_Witness ==
  /\ lastPassAt = 4
  /\ files["codex/c1.jsonl"].content = X1
  /\ <<"codex", "codex/c1.jsonl">> \in DOMAIN ingest_file
  /\ ingest_file[<<"codex", "codex/c1.jsonl">>].ingested_at = 4
  /\ <<"codex", "S1">> \notin DOMAIN session_rollup
  /\ <<"openclaw", "S1">> \in DOMAIN session_rollup
  /\ DOMAIN token_daily = {<<3 \div DayMs, "openclaw", "m2">>}

\* a step in which getDashboardCached starts an ingestion pass
C13_PassTriggered ==
  \/ ServeBuilt
  \/ /\ ~CacheFresh
     /\ changes < MaxChanges
     /\ \E ws \in {ingestDashboardData(DB, files, registry, now)} :
        \E n \in 0..MaxWritesOfPass : ServeFault(ws, n)

\* C13: at least CACHE_TTL_MS elapse between the starts of any two ingestion
\* passes getDashboardCached triggers, and a call made less than CACHE_TTL_MS
\* after the previous pass started returns the cached dashboard without
\* touching the store.
C13_PassesSpacedByCacheTtl ==
  [][/\ (C13_PassTriggered /\ triggeredAt # 0)
        => (now - triggeredAt) * MsPerUnit >= CACHE_TTL_MS
     /\ ((C13_PassTriggered \/ ServeCached) /\ triggeredAt # 0
           /\ (now - triggeredAt) * MsPerUnit < CACHE_TTL_MS)
        => /\ UNCHANGED store
           /\ response'.status = 200
           /\ response'.body = dashboardCache
           /\ dashboardCache # NoDashboard]_vars

\* C14: if the store cannot be opened or a store write throws during a pass,
\* the pass stops at that point, no fallback result is computed and the
\* error reaches the caller: buildDashboard throws (nothing is cached) and
\* the handler of /api/dashboard answers with status 500, not a dashboard.
C14_StoreFaultIsFatal ==
  [][(threw' # -1 /\ C13_PassTriggered) =>
       LET ws == ingestDashboardData(DB, files, registry, now)
       IN /\ threw' < Len(ws)
          /\ DB' = ApplyOps(DB, ws, threw')
          /\ dashboardCache' = dashboardCache
          /\ dashboardCacheAt' = dashboardCacheAt
          /\ response'.status = 500
          /\ "overview" \notin DOMAIN response'.body
          /\ response'.body # dashboardCache]_vars

\* a dashboard had been cached, the store threw between the upsert into
\* session_rollup and the one into session_fact, and the answer is a 500
C14_Witness ==
  /\ threw >= 1
  /\ response.status = 500
  /\ dashboardCache # NoDashboard
  /\ session_rollup # EmptyMap
  /\ session_fact = EmptyMap

\* no token counter is positive
C15_AllZero(tokensIn, tokensOut, tokensTotal) ==
  tokensIn <= 0 /\ tokensOut <= 0 /\ tokensTotal <= 0

\* C15: a session whose total, input and output tokens are all zero is
\* excluded whatever its model: upsertSession never writes such a record, no
\* session_fact or session_rollup row has all three token fields <= 0, and
\* readSessionPointsFromDb and aggregateUsage never return one.
C15_ZeroTokenSessionsExcluded ==
  /\ \A k \in DOMAIN session_fact :
       ~C15_AllZero(session_fact[k].input_tokens, session_fact[k].output_tokens,
                    session_fact[k].total_tokens)
  /\ \A k \in DOMAIN session_rollup :
       ~C15_AllZero(session_rollup[k].input_tokens, session_rollup[k].output_tokens,
                    session_rollup[k].total_tokens)
  /\ LET ws == ingestDashboardData(DB, files, registry, now)
     IN \A i \in DOMAIN ws :
          ws[i].op \in {"upsertRollup", "upsertFact"} =>
            ~C15_AllZero(ws[i].row.input_tokens, ws[i].row.output_tokens,
                         ws[i].row.total_tokens)
  /\ LET points == readSessionPointsFromDb(DB)
         usage == aggregateUsage(points, now)
     IN /\ \A i \in DOMAIN points :
             ~C15_AllZero(points[i].inputTokens, points[i].outputTokens,
                          points[i].totalTokens)
        /\ \A i \in DOMAIN usage.points :
             ~C15_AllZero(usage.points[i].inputTokens, usage.points[i].outputTokens,
                          usage.points[i].totalTokens)

\* a pass has decoded a codex log whose record has a known model and no
\* tokens, next to an openclaw session that is stored
C15_Witness ==
  /\ runs >= 1
  /\ files["codex/c1.jsonl"].content = X2
  /\ "codex/c1.jsonl" \in decoded
  /\ parseCodexSessionFile("codex/c1.jsonl", files["codex/c1.jsonl"], now).model = "Codex Local"
  /\ <<"codex", "c1">> \notin DOMAIN session_fact
  /\ <<"openclaw", "S1">> \in DOMAIN session_fact

\* C16: redaction is idempotent: redactObject(redactObject(v)) equals
\* redactObject(v) for every value v, and redactInline(redactInline(t))
\* equals redactInline(t) for every text t.
C16_RedactionIdempotent ==
  (call.fn \in {"redactObject", "redactInline"} /\ Len(call.outputs) = 2)
    => call.outputs[2] = call.outputs[1]

\* C17: normalizeQueryText applied to the text
\* "[Wed 2026-02-18 13:39 GMT+8] <TaskLabel> - <Agree>" returns a string
\* that begins with the text Agree: the timestamp tag and the label before
\* the content are both removed.
C17_Input == <<TagGmt, " ", TaskLabel, " ", "-", " ", Agree>>

C17_ResultBeginsWithContent ==
  (call.fn = "normalizeQueryText" /\ call.maxChars = 1200 /\ call.input = C17_Input
     /\ call.outputs # <<>>)
    => (call.outputs[1] # Null /\ call.outputs[1][1] = Agree)

\* C18: refreshDashboard requests /api/dashboard first and requests
\* ./data/dashboard.static.json only after that request failed;
\* state.staticMode is true exactly when the data in state came from the
\* static file; when both requests fail, state.data is left as it was.
C18_FromStatic(data) == data # NoData /\ data.staticExportedAt > 0

C18_Order ==
  /\ Len(fetches) <= 2
  /\ Len(fetches) >= 1 => fetches[1].url = "/api/dashboard"
  /\ Len(fetches) = 2 => (fetches[1].outcome = "failed" /\ fetches[2].url = "./data/dashboard.static.json")

C18_BothFailed == Len(fetches) = 2 /\ fetches[2].outcome = "failed"

C18_LiveFirstStaticFallback ==
  /\ [](C18_Order /\ (state.staticMode <=> C18_FromStatic(state.data)))
  /\ [][(~C18_BothFailed /\ C18_BothFailed') => state'.data = state.data]_vars

\* both requests of a refresh failed while a snapshot loaded earlier is shown
C18_Witness ==
  /\ C18_BothFailed
  /\ ~refreshInFlight
  /\ state.staticMode
  /\ C18_FromStatic(state.data)

\* C19: a run of the sync script commits only when the staged
\* public/data/dashboard.static.json differs from HEAD, makes no commit
\* when it does not differ, and pushes only if the local branch is ahead of
\* its upstream.
C19_CommitOnlyOnSnapshotChange ==
  (lastSync.ran /\ lastSync.exported)
    => /\ lastSync.committed <=> lastSync.targetDiffers
       /\ lastSync.pushed => lastSync.aheadAtPush > 0

\* C20: at the end of a complete pass in which a session has both a changed
\* log file and a registry record, the token counts stored for the session
\* are the reconciled ones, so that a registry counter of zero never makes a
\* positive counter decoded from the log be stored smaller or as zero.
C20_Registry == registryBySession(allSessionRecords(registry, 1), 1, EmptyMap)

\* p is the one log file of its session decoded in the pass, and the
\* registry holds a record of that session for the file's agent
C20_FileAndRecord(p) ==
  /\ p \in decoded'
  /\ C8_Rec(p) # NoRecord
  /\ <<AgentOf(p), C8_Rec(p).sessionId>> \in DOMAIN C20_Registry
  /\ \A q \in (decoded' \cap OpenClawPaths) \ {p} :
       C8_Rec(q) # NoRecord => C8_Rec(q).sessionId # C8_Rec(p).sessionId

C20_Reconciled(p) ==
  mergeOpenClawParsedWithRegistry(C8_Rec(p), C20_Registry[<<AgentOf(p), C8_Rec(p).sessionId>>])

C20_StoredCountsAreReconciled ==
  [][PassStep =>
       \A p \in OpenClawPaths :
         (C20_FileAndRecord(p) /\ <<"openclaw", C8_Rec(p).sessionId>> \in DOMAIN session_rollup')
           => LET row == session_rollup'[<<"openclaw", C8_Rec(p).sessionId>>]
              IN /\ row.input_tokens = C20_Reconciled(p).inputTokens
                 /\ row.output_tokens = C20_Reconciled(p).outputTokens
                 /\ row.total_tokens = C20_Reconciled(p).totalTokens]_vars

\* C21: every pass upserts every registry record that has a session id and
\* token activity as source "openclaw", whether or not a log file of the
\* session was decoded in the pass: after the pass the stored row carries
\* that record's token counts (the total falling back to input + output),
\* its normalised model and its updatedAt, unless retention removed the row;
\* when no log file of the session was decoded in the pass the row keeps the
\* input_query it had.
C21_Upserted(rec) == rec.sessionId \notin {Null, ""} /\ hasTokenActivity(rec)

C21_NoFileDecoded(sessionId) ==
  \A p \in decodedFiles(DB, files) \cap OpenClawPaths :
    C8_Rec(p) = NoRecord \/ C8_Rec(p).sessionId # sessionId

C21_RowOf(rec, row) ==
  /\ row.input_tokens = toNumber(rec.inputTokens)
  /\ row.output_tokens = toNumber(rec.outputTokens)
  /\ row.total_tokens = (IF toNumber(rec.totalTokens) # 0 THEN toNumber(rec.totalTokens)
                         ELSE toNumber(rec.inputTokens) + toNumber(rec.outputTokens))
  /\ row.model = normalizeModelName(rec.model)
  /\ row.updated_at = toTimestamp(rec.updatedAt, now)

C21_RegistryRecordsAreUpserted ==
  [][PassStep =>
       \A rec \in {allSessionRecords(registry, 1)[i] :
                     i \in 1..Len(allSessionRecords(registry, 1))} :
         C21_Upserted(rec) =>
           LET key == <<"openclaw", rec.sessionId>>
           IN IF toTimestamp(rec.updatedAt, now) < now - SESSION_RETENTION_MS
              THEN key \notin DOMAIN session_rollup' /\ key \notin DOMAIN session_fact'
              ELSE /\ key \in DOMAIN session_rollup' /\ key \in DOMAIN session_fact'
                   /\ C21_RowOf(rec, session_rollup'[key])
                   /\ C21_RowOf(rec, session_fact'[key])
                   /\ (key \in DOMAIN session_fact /\ C21_NoFileDecoded(rec.sessionId))
                        => session_fact'[key].input_query = session_fact[key].input_query]_vars

\* the first pass after the registry advanced: no log file was decoded, the
\* row of S1 holds the registry's counts (0, 0, 7) and still the query q1
\* decoded from the log file in an earlier pass
C21_Witness ==
  /\ runs = 1 /\ lastPassAt = now /\ decoded = {}
  /\ <<"openclaw", "S1">> \in DOMAIN session_fact
  /\ session_fact[<<"openclaw", "S1">>].input_query = "q1"
  /\ session_fact[<<"openclaw", "S1">>].input_tokens = 0
  /\ session_fact[<<"openclaw", "S1">>].total_tokens = 7
  /\ session_rollup[<<"openclaw", "S1">>].total_tokens = 7

\* C22: a pass in which the log files of a session and its registry record
\* all report zero token activity removes the row stored for the session
\* from session_fact and from session_rollup.
C22_FileReportsZero(sessionId) ==
  LET ofSession == {p \in OpenClawPaths :
                      /\ files[p].exists
                      /\ C8_Rec(p) # NoRecord
                      /\ C8_Rec(p).sessionId = sessionId}
  IN /\ ofSession \cap decodedFiles(DB, files) # {}
     /\ \A p \in ofSession : ~hasTokenActivity(C8_Rec(p))

C22_RegistryReportsZero(sessionId) ==
  \A i \in 1..Len(allSessionRecords(registry, 1)) :
    allSessionRecords(registry, 1)[i].sessionId = sessionId
      => ~hasTokenActivity(allSessionRecords(registry, 1)[i])

C22_ZeroActivityRemovesRow ==
  [][PassStep =>
       \A sessionId \in {"S1", "S2"} :
         (/\ <<"openclaw", sessionId>> \in DOMAIN session_fact
          /\ C22_FileReportsZero(sessionId)
          /\ C22_RegistryReportsZero(sessionId))
           => /\ <<"openclaw", sessionId>> \notin DOMAIN session_fact'
              /\ <<"openclaw", sessionId>> \notin DOMAIN session_rollup']_vars

\* C23: the updatedAt of the record mergeOpenClawParsedWithRegistry returns
\* for a registry record is the maximum of the parsed and the registry
\* timestamp, and it is smaller than neither side's updatedAt.
C23_UpdatedAtIsMaximum ==
  (call.fn = "mergeOpenClawParsedWithRegistry" /\ call.done /\ call.registryRecord # NoRecord)
    => /\ call.result.updatedAt = Max(toTimestamp(call.parsed.updatedAt, 0),
                                      toTimestamp(call.registryRecord.updatedAt, 0))
       /\ call.result.updatedAt >= call.parsed.updatedAt
       /\ call.result.updatedAt >= call.registryRecord.updatedAt

\* the merge has returned for a parsed record stamped 1 and a registry
\* record stamped 3: the result is stamped 3
C23_Witness ==
  /\ call.fn = "mergeOpenClawParsedWithRegistry"
  /\ call.done
  /\ call.registryRecord # NoRecord
  /\ call.parsed.updatedAt = 1
  /\ call.registryRecord.updatedAt = 3
  /\ call.result.updatedAt = 3

\* the merge has returned for a parsed record stamped 3 and a registry
\* record stamped 1: the result is stamped 3
C23_WitnessParsedLater ==
  /\ call.fn = "mergeOpenClawParsedWithRegistry"
  /\ call.done
  /\ call.registryRecord # NoRecord
  /\ call.parsed.updatedAt = 3
  /\ call.registryRecord.updatedAt = 1
  /\ call.result.updatedAt = 3

----------------------------------------------------------------------------
(* Properties of the format decoders *)

\* the record the decoder of the call returns for a file with these lines
DecodeOf(content) ==
  IF call.fn = "parseOpenClawSessionFile"
  THEN parseOpenClawSessionFile(call.filePath, AgentOf(call.filePath),
                                [call.stat EXCEPT !.content = content], now)
  ELSE parseCodexSessionFile(call.filePath, [call.stat EXCEPT !.content = content], now)

Decoded == call.fn \in {"parseOpenClawSessionFile", "parseCodexSessionFile"} /\ call.done

\* the timestamps the records of the file carry: the row timestamp of every
\* record, the message timestamp of a message (openclaw), the payload
\* timestamp of a session_meta record (codex)
C24_Stamps ==
  LET lines == {call.stat.content[i] : i \in 1..Len(call.stat.content)}
      nested == IF call.fn = "parseOpenClawSessionFile" THEN "message" ELSE "session_meta"
  IN {t \in {l.ts : l \in {x \in lines : x.ok}}
              \cup {l.mts : l \in {x \in lines : x.ok /\ x.type = nested}} : t > 0}

C24_Max(S) == CHOOSE x \in S : \A y \in S : y <= x

\* C24 (as stated): the record a decoder returns has updatedAt equal to the
\* maximum timestamp found among the records of the file.
C24_UpdatedAtIsMaxRecordStamp ==
  (Decoded /\ call.result # NoRecord /\ C24_Stamps # {})
    => call.result.updatedAt = C24_Max(C24_Stamps)

\* C24 (amended): the record a decoder returns has updatedAt equal to the
\* maximum of the file's modification time and the timestamps found among
\* the records of the file, and the running updatedAt after one more line
\* is never lower than before it.
C24_UpdatedAtIsMaxOfMtimeAndStamps ==
  (Decoded /\ call.result # NoRecord)
    => /\ call.result.updatedAt = C24_Max(C24_Stamps \cup {call.stat.mtime})
       /\ \A k \in 1..(Len(call.stat.content) - 1) :
            LET before == DecodeOf(SubSeq(call.stat.content, 1, k))
                after == DecodeOf(SubSeq(call.stat.content, 1, k + 1))
            IN (before # NoRecord /\ after # NoRecord)
                 => before.updatedAt <= after.updatedAt

\* a decoder has returned a record for a file modified at 2 whose records
\* carry the one timestamp 1: updatedAt is 2
C24_Witness ==
  /\ Decoded
  /\ call.result # NoRecord
  /\ C24_Stamps = {1}
  /\ Len(call.stat.content) > 1
  /\ call.result.updatedAt = 2

\* a decoder has returned a record whose updatedAt is the timestamp 3 of a
\* record, later than the file's modification time
C24_WitnessRecordStamp ==
  /\ Decoded
  /\ call.result # NoRecord
  /\ 3 \in C24_Stamps
  /\ call.result.updatedAt = 3

\* C25: a line that is not valid JSON is skipped and the file is read on:
\* each decoder returns for a file the record it returns for the file with
\* the unparsable lines removed, provided a line remains.
C25_Parsable(content) == LET ok(line) == line.ok IN SelectSeq(content, ok)

C25_BadLinesAreSkipped ==
  (Decoded /\ Len(C25_Parsable(call.stat.content)) > 0)
    => call.result = DecodeOf(C25_Parsable(call.stat.content))

\* a decoder has returned a record with token counts for a file whose
\* first line is unparsable
C25_Witness ==
  /\ Decoded
  /\ ~call.stat.content[1].ok
  /\ Len(C25_Parsable(call.stat.content)) > 0
  /\ call.result # NoRecord
  /\ call.result.totalTokens > 0

\* the file holds a session record (openclaw: kind session, codex: kind
\* session_meta) that supplies an identifier
C26_SuppliesId ==
  \E i \in 1..Len(call.stat.content) :
    LET line == call.stat.content[i]
    IN /\ line.ok
       /\ line.type = (IF call.fn = "parseOpenClawSessionFile" THEN "session"
                       ELSE "session_meta")
       /\ line.id \notin {Null, ""}

\* C26 (as stated): for a file without a session record that supplies an
\* identifier the openclaw decoder returns null and the codex decoder a
\* record whose sessionId is the file's base name without .jsonl.
C26_NoIdentifierNullOrBaseName ==
  (Decoded /\ ~C26_SuppliesId)
    => IF call.fn = "parseOpenClawSessionFile" THEN call.result = NoRecord
       ELSE call.result # NoRecord /\ call.result.sessionId = "c1"

\* C26 (amended): for a file without a session record that supplies an
\* identifier the openclaw decoder returns a record under the session id of
\* the file name when the base name is <36 hex digits or dashes>.jsonl with
\* an optional .deleted.<x> suffix (a1/S1.jsonl stands for such a name, S1
\* for its id), and null for any other name; the codex decoder returns a
\* record whose sessionId is the file's base name without .jsonl.
C26_NoIdentifierNameOrNull ==
  (Decoded /\ ~C26_SuppliesId)
    => IF call.fn = "parseCodexSessionFile"
         THEN call.result # NoRecord /\ call.result.sessionId = "c1"
       ELSE IF call.filePath = "a1/S1.jsonl"
         THEN call.result # NoRecord /\ call.result.sessionId = "S1"
       ELSE call.result = NoRecord

\* the openclaw decoder has returned a record with tokens under the session
\* id of the file name, for a file without a session record
C26_Witness ==
  /\ Decoded
  /\ call.fn = "parseOpenClawSessionFile"
  /\ ~C26_SuppliesId
  /\ call.filePath = "a1/S1.jsonl"
  /\ call.result # NoRecord
  /\ call.result.sessionId = "S1"
  /\ call.result.totalTokens > 0

\* the openclaw decoder has returned null for a file with an assistant
\* message, no session record and a name that is no session id
C26_WitnessNull ==
  /\ Decoded
  /\ call.fn = "parseOpenClawSessionFile"
  /\ ~C26_SuppliesId
  /\ call.filePath = "a2/notes.jsonl"
  /\ \E i \in 1..Len(call.stat.content) : call.stat.content[i].role = "assistant"
  /\ call.result = NoRecord

\* the codex decoder has returned a record under the base name of the file
C26_WitnessCodex ==
  /\ Decoded
  /\ call.fn = "parseCodexSessionFile"
  /\ ~C26_SuppliesId
  /\ call.result # NoRecord
  /\ call.result.sessionId = "c1"

\* C27: the token counts the openclaw decoder returns are sums over the
\* assistant messages of the file: inputTokens of input + cacheRead +
\* cacheWrite, outputTokens of output, totalTokens of the message's
\* totalTokens when that is not zero and of its input + output otherwise;
\* no other record adds to them.
C27_Assistants ==
  {i \in 1..Len(call.stat.content) :
     /\ call.stat.content[i].ok
     /\ call.stat.content[i].type = "message"
     /\ call.stat.content[i].role = "assistant"}

C27_Input(i) ==
  call.stat.content[i].input + call.stat.content[i].cacheRead + call.stat.content[i].cacheWrite

C27_CountsAreSumsOverAssistantMessages ==
  (Decoded /\ call.fn = "parseOpenClawSessionFile" /\ call.result # NoRecord)
    => /\ call.result.inputTokens =
            SumOver(C27_Assistants, [i \in C27_Assistants |-> C27_Input(i)])
       /\ call.result.outputTokens =
            SumOver(C27_Assistants, [i \in C27_Assistants |-> call.stat.content[i].output])
       /\ call.result.totalTokens =
            SumOver(C27_Assistants,
                    [i \in C27_Assistants |->
                       IF call.stat.content[i].total # 0 THEN call.stat.content[i].total
                       ELSE C27_Input(i) + call.stat.content[i].output])

\* the decoder has returned the sums of a file with a user message and two
\* assistant messages, one reporting a total of 7 for input 1 + 1 + 2 and
\* the other no total for input 10 and output 5
C27_Witness ==
  /\ Decoded
  /\ call.fn = "parseOpenClawSessionFile"
  /\ call.result # NoRecord
  /\ Cardinality(C27_Assistants) = 2
  /\ \E i \in 1..Len(call.stat.content) : call.stat.content[i].role = "user"
  /\ call.result.inputTokens = 14
  /\ call.result.outputTokens = 5
  /\ call.result.totalTokens = 22

\* C28: the codex decoder does not add up usage reports: the token counts it
\* returns are those of the last token_count event of the file, the total
\* being that event's total_tokens or, when that is zero or missing, its
\* input + output; they are zero when the event carries no usage and when
\* the file has no such event.
C28_Events ==
  {i \in 1..Len(call.stat.content) :
     call.stat.content[i].ok /\ call.stat.content[i].type = "token_count"}

C28_CountsAreThoseOfLastEvent ==
  (Decoded /\ call.fn = "parseCodexSessionFile")
    => IF C28_Events = {}
       THEN /\ call.result.inputTokens = 0
            /\ call.result.outputTokens = 0
            /\ call.result.totalTokens = 0
       ELSE LET last == call.stat.content[C24_Max(C28_Events)]
            IN /\ call.result.inputTokens = last.input
               /\ call.result.outputTokens = last.output
               /\ call.result.totalTokens =
                    (IF last.total # 0 THEN last.total ELSE last.input + last.output)

\* the decoder has returned the counts 3, 4 and 7 of the last of two
\* token_count events, the first of which reported 5, 6 and 12
C28_Witness ==
  /\ Decoded
  /\ call.fn = "parseCodexSessionFile"
  /\ Cardinality(C28_Events) = 2
  /\ call.stat.content[C24_Max(C28_Events)].input = 3
  /\ \E i \in C28_Events : call.stat.content[i].total = 12
  /\ call.result.inputTokens = 3
  /\ call.result.outputTokens = 4
  /\ call.result.totalTokens = 7

\* the decoder has returned zero counts for a file whose last token_count
\* event carries no usage, after an event that reported 5, 6 and 12
C28_WitnessNoUsage ==
  /\ Decoded
  /\ call.fn = "parseCodexSessionFile"
  /\ Cardinality(C28_Events) = 2
  /\ \E i \in C28_Events : call.stat.content[i].total = 12
  /\ call.result.inputTokens = 0
  /\ call.result.totalTokens = 0

\* the positions of the user messages of the file whose text is not empty
\* after normalizeQueryText
C29_UserTexts ==
  {i \in 1..Len(call.stat.content) :
     /\ call.stat.content[i].ok
     /\ call.stat.content[i].type = (IF call.fn = "parseOpenClawSessionFile" THEN "message"
                                     ELSE "response_item")
     /\ call.stat.content[i].role = "user"
     /\ normalizeQueryText(call.stat.content[i].text) # Null}

C29_Text(i) == normalizeQueryText(call.stat.content[i].text)

\* the auto-injected preambles among the texts of the model
C29_Preamble(text) == text \in {"AGENTS.md instructions", "<permissions instructions>"}

C29_Min(S) == CHOOSE x \in S : \A y \in S : x <= y

\* C29: the inputQuery of the codex decoder is the last non-empty user text
\* that is no auto-injected preamble when the file has one, and the first
\* non-empty user text when all of them are preambles; the inputQuery of
\* the openclaw decoder is the last non-empty user text.
C29_InputQueryIsLastUserText ==
  (Decoded /\ call.result # NoRecord)
    => IF C29_UserTexts = {} THEN call.result.inputQuery = Null
       ELSE IF call.fn = "parseOpenClawSessionFile"
         THEN call.result.inputQuery = C29_Text(C24_Max(C29_UserTexts))
       ELSE IF \E i \in C29_UserTexts : ~C29_Preamble(C29_Text(i))
         THEN call.result.inputQuery =
                C29_Text(C24_Max({i \in C29_UserTexts : ~C29_Preamble(C29_Text(i))}))
       ELSE call.result.inputQuery = C29_Text(C29_Min(C29_UserTexts))

\* the codex decoder has returned the query q2 of a file in which a preamble
\* follows the user text q2
C29_Witness ==
  /\ Decoded
  /\ call.fn = "parseCodexSessionFile"
  /\ \E i, j \in C29_UserTexts :
       i < j /\ C29_Text(i) = "q2" /\ C29_Preamble(C29_Text(j))
  /\ call.result.inputQuery = "q2"

\* the codex decoder has returned the first of two different preambles
C29_WitnessAllPreambles ==
  /\ Decoded
  /\ call.fn = "parseCodexSessionFile"
  /\ Cardinality(C29_UserTexts) = 2
  /\ call.stat.content[C29_Min(C29_UserTexts)].text = "<permissions instructions>"
  /\ call.stat.content[C24_Max(C29_UserTexts)].text = "AGENTS.md instructions"
  /\ call.result.inputQuery = "<permissions instructions>"

\* the openclaw decoder has returned the last of two user texts, an empty
\* one following it
C29_WitnessOpenClaw ==
  /\ Decoded
  /\ call.fn = "parseOpenClawSessionFile"
  /\ call.result # NoRecord
  /\ Len(call.stat.content) = 3
  /\ call.stat.content[1].text = "q2"
  /\ call.stat.content[2].text = "[Wed 2026-02-18 13:39 GMT+8] q1"
  /\ call.stat.content[3].text = "session_id: 1"
  /\ call.result.inputQuery = "q1"

----------------------------------------------------------------------------
(* Properties of the aggregator *)

\* the positions of the input records that have token activity: a counter
\* above zero, a counter that is no number counting as zero
C30_Active ==
  {i \in 1..Len(call.records) :
     \E f \in {"totalTokens", "inputTokens", "outputTokens"} :
       call.records[i][f] # NotFinite /\ call.records[i][f] > 0}

C30_Field(i, f) == IF call.records[i][f] = NotFinite THEN 0 ELSE call.records[i][f]

\* the entry of points for the record at position i
C30_Point(i) ==
  [source |-> call.records[i].source, sessionId |-> call.records[i].sessionId,
   agentId |-> call.records[i].agentId, model |-> call.records[i].model,
   updatedAt |-> IF call.records[i].updatedAt > 0 THEN call.records[i].updatedAt ELSE now,
   totalTokens |-> C30_Field(i, "totalTokens"),
   inputTokens |-> C30_Field(i, "inputTokens"),
   outputTokens |-> C30_Field(i, "outputTokens"),
   inputQuery |-> call.records[i].inputQuery]

\* C30: the totals of aggregateUsage are taken over exactly the input
\* records with token activity (sessions their number, totalTokens,
\* inputTokens and outputTokens the sums of their fields), and points holds
\* one entry for each of these records, in ascending order of updatedAt.
C30_TotalsAndPointsOverActiveRecords ==
  (call.fn = "aggregateUsage" /\ call.done)
    => LET totals == call.result.totals
           points == call.result.points
       IN /\ totals.sessions = Cardinality(C30_Active)
          /\ \A f \in {"totalTokens", "inputTokens", "outputTokens"} :
               totals[f] = SumOver(C30_Active, [i \in C30_Active |-> C30_Field(i, f)])
          /\ Len(points) = Cardinality(C30_Active)
          /\ \E at \in [C30_Active -> 1..Len(points)] :
               /\ \A i, j \in C30_Active : i # j => at[i] # at[j]
               /\ \A i \in C30_Active : points[at[i]] = C30_Point(i)
          /\ \A k \in 1..(Len(points) - 1) : points[k].updatedAt <= points[k + 1].updatedAt

\* aggregateUsage has returned for three records given in descending
\* order of updatedAt, the second without token activity: two sessions,
\* 17 tokens, and the points of S2 and S1 in this order
C30_Witness ==
  /\ call.fn = "aggregateUsage"
  /\ call.done
  /\ Len(call.records) = 3
  /\ call.records[1].sessionId = "S1"
  /\ call.records[2].sessionId = "S3"
  /\ call.records[3].sessionId = "S2"
  /\ call.result.totals.sessions = 2
  /\ call.result.totals.totalTokens = 17
  /\ Len(call.result.points) = 2
  /\ call.result.points[1].sessionId = "S2"
  /\ call.result.points[2].sessionId = "S1"

\* the UTC day of the counted record at position i
C31_Day(i) == C30_Point(i).updatedAt \div DayMs

C31_Days == {C31_Day(i) : i \in C30_Active}

\* C31: the trend of aggregateUsage has at most TREND_DAYS entries (14 in
\* the source), in ascending order of date and one for each day, and they
\* are the most recent of the days that have data; the tokens of an entry
\* are the sum of totalTokens of the counted records of its day, so that
\* the tokens of the trend add up to totals.totalTokens whenever no more
\* than TREND_DAYS days have data.
C31_TrendIsRecentDays ==
  (call.fn = "aggregateUsage" /\ call.done)
    => LET trend == call.result.trend
           dates == {trend[k].date : k \in 1..Len(trend)}
       IN /\ Len(trend) <= TREND_DAYS
          /\ Len(trend) = (IF Cardinality(C31_Days) > TREND_DAYS THEN TREND_DAYS
                           ELSE Cardinality(C31_Days))
          /\ \A k \in 1..(Len(trend) - 1) : trend[k].date < trend[k + 1].date
          /\ dates \subseteq C31_Days
          /\ \A d \in C31_Days \ dates : \A e \in dates : d < e
          /\ \A k \in 1..Len(trend) :
               trend[k].tokens =
                 SumOver({i \in C30_Active : C31_Day(i) = trend[k].date},
                         [i \in C30_Active |-> C30_Field(i, "totalTokens")])
          /\ Cardinality(C31_Days) <= TREND_DAYS
               => SumOver(1..Len(trend), [k \in 1..Len(trend) |-> trend[k].tokens])
                    = call.result.totals.totalTokens

\* aggregateUsage has returned for records of three days: the trend holds
\* the two latest days and its tokens are less than the total
C31_Witness ==
  /\ call.fn = "aggregateUsage"
  /\ call.done
  /\ Cardinality(C31_Days) = TREND_DAYS + 1
  /\ Len(call.result.trend) = TREND_DAYS
  /\ call.result.trend[1].date > 0
  /\ call.result.trend[1].tokens > 0
  /\ SumOver(1..Len(call.result.trend),
             [k \in 1..Len(call.result.trend) |-> call.result.trend[k].tokens])
       < call.result.totals.totalTokens

\* aggregateUsage has returned for two records of the same day: one trend
\* entry with the sum of their tokens
C31_WitnessSameDay ==
  /\ call.fn = "aggregateUsage"
  /\ call.done
  /\ Cardinality(C30_Active) = 2
  /\ Len(call.result.trend) = 1
  /\ call.result.trend[1].tokens = call.result.totals.totalTokens
  /\ \A i \in C30_Active : call.records[i].totalTokens > 0
  /\ call.records[1] # call.records[2]

----------------------------------------------------------------------------
(* Properties of the length cap of normalizeQueryText                       *)

C32_Out == call.outputs[1]

\* what the call returns when nothing is cut: no text of the model has
\* 1200 characters
C32_Whole == normalizeQuerySymbols(call.input, 1200)

C32_Truncated == C32_Whole # Null /\ Chars(C32_Whole) > call.maxChars

C32_EndsWithEllipsis(text) == text[Len(text)] = Ellipsis

\* C32: every value normalizeQueryText returns is either null or a non-empty
\* string of at most maxChars characters whose last character is the
\* ellipsis exactly when the text was truncated.
C32_EllipsisExactlyWhenTruncated ==
  (call.fn = "normalizeQueryText" /\ call.outputs # <<>>)
    => \/ C32_Out = Null
       \/ /\ Chars(C32_Out) >= 1
          /\ Chars(C32_Out) <= call.maxChars
          /\ C32_EndsWithEllipsis(C32_Out) <=> C32_Truncated

\* C32, amended: every value normalizeQueryText returns is either null or a
\* non-empty string of at most maxChars characters; a truncated text comes
\* back as its first maxChars - 1 characters followed by the ellipsis, and a
\* text that is not truncated comes back whole, whatever its last character.
C32_TruncatedEndsWithEllipsis ==
  (call.fn = "normalizeQueryText" /\ call.outputs # <<>>)
    => \/ C32_Out = Null /\ C32_Whole = Null
       \/ /\ C32_Whole # Null
          /\ Chars(C32_Out) >= 1
          /\ Chars(C32_Out) <= call.maxChars
          /\ C32_Truncated =>
               /\ C32_EndsWithEllipsis(C32_Out)
               /\ Chars(C32_Out) = call.maxChars
               /\ \A i \in 1..(Len(C32_Out) - 2) : C32_Out[i] = C32_Whole[i]
          /\ ~C32_Truncated => C32_Out = C32_Whole

C32_Witness ==
  /\ call.fn = "normalizeQueryText" /\ call.outputs # <<>>
  /\ C32_Truncated
  /\ C32_Out # Null /\ C32_EndsWithEllipsis(C32_Out)

C32_WitnessWholeEndsWithEllipsis ==
  /\ call.fn = "normalizeQueryText" /\ call.outputs # <<>>
  /\ ~C32_Truncated
  /\ C32_Out # Null /\ C32_EndsWithEllipsis(C32_Out)

----------------------------------------------------------------------------
(* Properties of the two session tables                                     *)

C33_SameRow(k) ==
  /\ session_rollup[k].agent_id = session_fact[k].agent_id
  /\ session_rollup[k].model = session_fact[k].model
  /\ session_rollup[k].updated_at = session_fact[k].updated_at
  /\ session_rollup[k].input_tokens = session_fact[k].input_tokens
  /\ session_rollup[k].output_tokens = session_fact[k].output_tokens
  /\ session_rollup[k].total_tokens = session_fact[k].total_tokens

C33_TablesAgree ==
  /\ DOMAIN session_rollup = DOMAIN session_fact
  /\ \A k \in DOMAIN session_rollup : C33_SameRow(k)

\* C33: after every completed pass, session_rollup and session_fact hold
\* the same set of (source, session_id) keys, and for each key the two rows
\* agree on agent_id, model, updated_at, input_tokens, output_tokens and
\* total_tokens.
C33_RollupAndFactAgree == [][PassStep => C33_TablesAgree']_vars

----------------------------------------------------------------------------
(* Properties of the daily buckets against the overview                     *)

C34_Totals == aggregateUsage(readSessionPointsFromDb(DB), now).totals

C34_DailyTotal ==
  SumOver(DOMAIN token_daily, [k \in DOMAIN token_daily |-> token_daily[k].total_tokens])

C34_DailySessions ==
  SumOver(DOMAIN token_daily, [k \in DOMAIN token_daily |-> token_daily[k].sessions])

C34_StoredTotalsPositive ==
  /\ \A k \in DOMAIN session_rollup : session_rollup[k].total_tokens > 0
  /\ \A k \in DOMAIN session_fact : session_fact[k].total_tokens > 0

C34_AfterPass ==
  /\ C34_StoredTotalsPositive
  /\ C34_DailyTotal = C34_Totals.totalTokens
  /\ C34_DailySessions = C34_Totals.sessions

----------------------------------------------------------------------------
(* Properties of the recorded file state                                    *)

C35_Key(p) == <<IF p \in CodexPaths THEN "codex" ELSE "openclaw", p>>

\* the state recorded for the file is its present mtime and size
C35_Recorded(p) ==
  /\ C35_Key(p) \in DOMAIN ingest_file
  /\ ingest_file[C35_Key(p)].mtime_ms = files[p].mtime
  /\ ingest_file[C35_Key(p)].size_bytes = files[p].size

\* the file yields no stored session: the decoder returns no record, or
\* upsertSession drops the record
C35_NoSession(p) ==
  LET parsed == IF p \in CodexPaths THEN parseCodexSessionFile(p, files[p], now)
                ELSE parseOpenClawSessionFile(p, AgentOf(p), files[p], now)
  IN parsed = NoRecord \/ upsertSession(parsed, now) = <<>>

\* C35: a pass sets the ingest_file state of every changed file to the
\* file's mtime and size, whether or not the file gave a record and whether
\* or not upsertSession stored it, and goes on with the other files; a file
\* whose mtime and size are those recorded is not processed again: its
\* state row, ingested_at included, is left as it was.
C35_ChangedFilesAreRecordedOnce ==
  [][PassStep =>
       \A p \in OpenClawPaths \cup CodexPaths :
         files[p].exists =>
           IF C35_Recorded(p)
           THEN /\ ingest_file'[C35_Key(p)] = ingest_file[C35_Key(p)]
                /\ p \notin decoded'
           ELSE /\ C35_Key(p) \in DOMAIN ingest_file'
                /\ ingest_file'[C35_Key(p)] =
                     [mtime_ms |-> files[p].mtime, size_bytes |-> files[p].size,
                      ingested_at |-> now]
                /\ p \in decoded']_vars

\* a pass has recorded a file that gave no session, and later passes at a
\* later time have left its state alone
C35_Witness ==
  /\ runs >= 2
  /\ \E p \in OpenClawPaths \cup CodexPaths :
       /\ files[p].exists
       /\ C35_NoSession(p)
       /\ C35_Recorded(p)
       /\ ingest_file[C35_Key(p)].ingested_at < lastPassAt

C35_WitnessSkippedRecord ==
  /\ runs >= 1
  /\ \E p \in OpenClawPaths :
       /\ files[p].exists
       /\ parseOpenClawSessionFile(p, AgentOf(p), files[p], now) # NoRecord
       /\ C35_NoSession(p)
       /\ C35_Recorded(p)

----------------------------------------------------------------------------
(* Properties of the lock of the sync script                                *)

C36_PastLock == {r \in SyncRuns : syncPc[r] = "locked"}

\* C36: at most one run of the sync script is past the lock at any time; a
\* run that finds the lock directory present exits without exporting,
\* committing, pushing or removing the lock; the lock directory is removed
\* only by the run that made it, when that run exits, whether its later
\* steps succeeded or failed.
C36_SingleRunPastLock ==
  /\ [](/\ Cardinality(C36_PastLock) <= 1
        /\ C36_PastLock # {} => (lockDir.exists /\ lockDir.by \in C36_PastLock))
  /\ [][\A r \in SyncRuns :
          (syncPc[r] = "idle" /\ lockDir.exists /\ syncPc'[r] # "idle")
            => /\ syncPc'[r] = "skipped"
               /\ repo' = repo
               /\ lastSync' = lastSync
               /\ lockDir' = lockDir]_vars
  /\ [][(lockDir.exists /\ ~lockDir'.exists)
          => /\ syncPc[lockDir.by] = "locked"
             /\ syncPc'[lockDir.by] \in {"done", "failed"}]_vars
  /\ [][\A r \in SyncRuns :
          (syncPc[r] = "locked" /\ syncPc'[r] # "locked") => ~lockDir'.exists]_vars

\* one run holds the lock and the other has found it present
C36_Witness ==
  /\ syncPc["r1"] = "locked"
  /\ syncPc["r2"] = "skipped"
  /\ lockDir.exists /\ lockDir.by = "r1"

\* a run whose export failed has removed the lock, and the other run has
\* then made it
C36_WitnessAfterFailure ==
  /\ syncPc["r1"] = "failed"
  /\ lastSync.ran /\ ~lastSync.exported
  /\ syncPc["r2"] = "locked"
  /\ lockDir.exists /\ lockDir.by = "r2"

----------------------------------------------------------------------------
(* Properties of the refresh guard of the frontend                          *)

C37_RequestPending == fetches # <<>> /\ fetches[Len(fetches)].outcome = "pending"

\* C37: at most one refreshDashboard is in flight: a call made while
\* refreshInFlight is true issues no request, refreshInFlight is true
\* exactly while a request of the call in flight is pending, and it is
\* false again when that call ends, with success or failure, so that a
\* later refresh is not blocked forever.
C37_SingleRefreshInFlight ==
  /\ [](refreshInFlight <=> C37_RequestPending)
  /\ [][refreshInFlight =>
          \/ fetches' = fetches
          \/ /\ Len(fetches') >= Len(fetches)
             /\ \A i \in 1..Len(fetches) : fetches'[i].url = fetches[i].url
             /\ fetches'[Len(fetches)].outcome # "pending"]_vars
  /\ (refreshInFlight ~> ~refreshInFlight)

\* a refresh is in flight on its second request, after earlier data arrived
C37_Witness ==
  /\ refreshInFlight
  /\ Len(fetches) = 2
  /\ state.data # NoData

\* a refresh has ended in failure of both requests and the flag is down
C37_WitnessFailed ==
  /\ ~refreshInFlight
  /\ Len(fetches) = 2 /\ fetches[2].outcome = "failed"

----------------------------------------------------------------------------
(* C38: the detail pane in static mode *)

\* openFileInDetail has run for the item of the call
C38_Opened == call.fn = "openFileInDetail" /\ call.shown.kind # "closed"

\* the snapshot holds an entry for the path of the item
C38_HasEntry ==
  /\ "staticFiles" \in DOMAIN state.data
  /\ call.filePath \in DOMAIN state.data.staticFiles

\* the snapshot holds exported content for the path of the item
C38_HasContent ==
  C38_HasEntry /\ "content" \in DOMAIN state.data.staticFiles[call.filePath]

\* the snapshot holds an exported error for the path of the item
C38_HasError ==
  C38_HasEntry /\ "error" \in DOMAIN state.data.staticFiles[call.filePath]

\* what the pane shows for an item with a path in static mode: the exported
\* content (with the truncation note of a truncated export), else the
\* exported error, else the fixed message
C38_ShowsExport ==
  IF C38_HasContent
    THEN LET staticFile == state.data.staticFiles[call.filePath]
         IN call.shown.text \in {staticFile.content,
                                 staticFile.content \o "\n\n[File truncated for preview]"}
  ELSE IF C38_HasError
    THEN call.shown.text = "Error: " \o state.data.staticFiles[call.filePath].error
  ELSE call.shown.text = "No exported file content for this card in static mode."

\* C38 as stated: while state.staticMode is true, openFileInDetail issues no
\* request to /api/file and shows the exported content, the exported error or
\* the fixed 'no exported file content' message; outside static mode it
\* requests /api/file only when the snapshot holds no exported content for
\* the path.
C38_StaticModeShowsExport ==
  C38_Opened =>
    /\ state.staticMode => call.request = <<>> /\ C38_ShowsExport
    /\ ~state.staticMode /\ call.request # <<>> => ~C38_HasContent

\* C38, amended: for an item without a file path openFileInDetail shows the
\* empty message of its caller (or 'This item has no source file path.') and
\* issues no request, in static mode and outside it; for an item with a path,
\* in static mode it issues no request to /api/file and shows the exported
\* content, the exported error or the fixed message, and outside static mode
\* it requests /api/file only when the snapshot holds no exported content for
\* the path.
C38_StaticModeShowsExportOrEmptyMessage ==
  C38_Opened =>
    IF call.filePath = Null
      THEN /\ call.request = <<>>
           /\ call.shown.text = IF call.emptyMessage = Null
                                  THEN "This item has no source file path."
                                ELSE call.emptyMessage
    ELSE /\ state.staticMode => call.request = <<>> /\ C38_ShowsExport
         /\ ~state.staticMode /\ call.request # <<>> => ~C38_HasContent

\* in static mode the pane has been opened for a file the snapshot does not
\* hold, and shows the fixed message without a request
C38_Witness ==
  /\ C38_Opened
  /\ state.staticMode
  /\ call.filePath = "/ws/a1/later.md"
  /\ call.request = <<>>
  /\ call.shown.text = "No exported file content for this card in static mode."

\* in static mode the pane shows the content of a truncated export
C38_WitnessContent ==
  /\ C38_Opened
  /\ state.staticMode
  /\ call.shown.text = "big\n\n[File truncated for preview]"

\* in static mode the pane shows the error of the export
C38_WitnessError ==
  /\ C38_Opened
  /\ state.staticMode
  /\ call.shown.text = "Error: File does not exist."
  /\ call.request = <<>>

\* outside static mode the pane has requested the file and shows the answer
C38_WitnessRequested ==
  /\ C38_Opened
  /\ ~state.staticMode
  /\ call.request = <<[url |-> "/api/file", path |-> "/ws/a1/notes.md"]>>
  /\ call.shown.text = "notes"

\* in static mode the pane has been opened for an item without a file path
C38_WitnessNoPath ==
  /\ C38_Opened
  /\ state.staticMode
  /\ call.filePath = Null
  /\ call.shown.text = "This card has no source file path."

----------------------------------------------------------------------------
(* C39: /api/file reads only below the allowed roots *)

\* /api/file has answered a request
C39_Served == call.fn = "/api/file" /\ call.served # <<>>

\* the request answered last came with a path that is not empty
C39_HasPath ==
  /\ C39_Served
  /\ "path" \in DOMAIN call.served[1].query
  /\ call.served[1].query.path # <<>>

\* the paths of the model that resolve to an allowed root or below one:
\* /home/.openclaw/openclaw.json, /home/.openclaw, /home/.openclaw/gone.md,
\* /home/.codex/big.md, /ws/a1/notes.md (the workspace of agent a1) and
\* /app/server.js
C39_InsidePaths ==
  {<<"/", "home", ".openclaw", "openclaw.json">>,
   <<"/", "home", ".openclaw">>,
   <<"/", "home", ".openclaw", "gone.md">>,
   <<".codex", "big.md">>,
   <<"/", "ws", "a1", "notes.md">>,
   <<"/", "etc", "..", "app", ".", "server.js">>}

\* the answer to a path outside the roots
C39_OutsideAnswer ==
  [status |-> 400, body |-> [ok |-> FALSE, error |-> "Path is outside allowed roots."]]

\* C39 as stated: file content (ok: true) is returned only for a path that
\* resolves to an allowed root or below one; for every other path the answer
\* is 400 with ok: false and 'Path is outside allowed roots.', given before
\* any existence check or read.
C39_OnlyAllowedRootsAreRead ==
  C39_HasPath =>
    /\ response.status = 200 => call.served[1].query.path \in C39_InsidePaths
    /\ call.served[1].query.path \notin C39_InsidePaths =>
         response = C39_OutsideAnswer /\ call.served[1].fsOps = <<>>

\* C39, amended: a request without a path is answered 400 'Missing path
\* parameter.'; a request during which building the dashboard fails is
\* answered 500 before readDetailFile is called; in both cases no file is
\* looked at.  Otherwise file content (ok: true, status 200) is returned only
\* for a path that resolves to an allowed root or below one, after the
\* existence check, the stat and the read, and every other path is answered
\* 400 with ok: false and 'Path is outside allowed roots.' before any
\* existence check or read.
C39_OnlyAllowedRootsAreReadUnlessBuildFails ==
  C39_Served =>
    IF ~C39_HasPath
      THEN /\ response = [status |-> 400, body |-> [error |-> "Missing path parameter."]]
           /\ call.served[1].fsOps = <<>>
    ELSE IF threw >= 0
      THEN /\ response.status = 500
           /\ call.served[1].fsOps = <<>>
    ELSE /\ response.status \in {200, 400}
         /\ response.status = 200 =>
              /\ call.served[1].query.path \in C39_InsidePaths
              /\ response.body.ok
              /\ call.served[1].fsOps = <<"access", "stat", "read">>
         /\ call.served[1].query.path \notin C39_InsidePaths =>
              response = C39_OutsideAnswer /\ call.served[1].fsOps = <<>>

\* a path that leaves the root through ".." has been refused without a look
\* at the file, which exists
C39_Witness ==
  /\ C39_HasPath
  /\ call.served[1].query.path = <<"/", "home", ".openclaw", "..", ".ssh", "id_rsa">>
  /\ "/home/.ssh/id_rsa" \in DOMAIN call.disk
  /\ response = C39_OutsideAnswer
  /\ call.served[1].fsOps = <<>>

\* a directory beside a root whose name begins with the name of the root
\* has been refused
C39_WitnessSibling ==
  /\ C39_HasPath
  /\ call.served[1].query.path = <<"/", "home", ".codexevil", "x.md">>
  /\ response = C39_OutsideAnswer

\* a relative path below a root has been read and truncated
C39_WitnessRead ==
  /\ C39_HasPath
  /\ call.served[1].query.path = <<".codex", "big.md">>
  /\ response.status = 200
  /\ response.body.truncated
  /\ response.body.content = [text |-> <<"clie">>]

\* a json file below a root has been read and its key redacted
C39_WitnessJson ==
  /\ C39_HasPath
  /\ response.status = 200
  /\ "json" \in DOMAIN response.body.content

\* the root itself, a directory, has been refused after the existence check
\* and the stat
C39_WitnessNotAFile ==
  /\ C39_HasPath
  /\ response.status = 400
  /\ response.body.error = "Target is not a regular file."
  /\ call.served[1].fsOps = <<"access", "stat">>

\* a path outside the roots has been answered 500: the dashboard could not
\* be built
C39_WitnessBuildFailed ==
  /\ C39_HasPath
  /\ call.served[1].query.path = <<"..", "etc", "passwd">>
  /\ response.status = 500
  /\ threw = 0

====
